---------------------------- MODULE Spec2Model ----------------------------
(***************************************************************************)
(* Track-Deez: the recurring-event occurrence engine                      *)
(* (DataManager.eventOccursOnDate) and the build-up habit progression     *)
(* (DataManager.addHabit / updateHabit / setHabitComplete), the habit     *)
(* form's validation, the streak calculator and the day-status classifier *)
(* (DataManager.getDayStatus) over the stored aggregate; then the cloud   *)
(* synchronisation (CloudStorageManager.syncData), the calendar's event   *)
(* exceptions (updateEvent, getEventsForDate), the habit item's click     *)
(* handler, the persistence in IndexedDB (saveData, loadData) and the     *)
(* streak cache and milestone tracking of AppEnhancements.                *)
(*                                                                         *)
(* Dates.  A stored date is the string "YYYY-MM-DD", written here as the   *)
(* tuple <<y, m, d>> with m in 1..12.  A JavaScript Date object is its     *)
(* time value; every Date the engine builds is a midnight, so the time     *)
(* value is kept in whole days, day 0 being 2024-01-01.  The runtime's     *)
(* time zone is UTC, so the local getters (getFullYear, getMonth, getDate, *)
(* getDay) read the same calendar day that the string parser produced.     *)
(*                                                                         *)
(* Optional values.  A field that may be missing (undefined) is a set:     *)
(* {} when missing, {v} when it holds v.                                   *)
(***************************************************************************)
EXTENDS Integers, Sequences, FiniteSets, TLC

VARIABLES
    event,      \* the event handed to eventOccursOnDate
    candidate,  \* the date handed to eventOccursOnDate ({} before any call)
    result,     \* outcome of the last call: "none", "true", "false", "diverges"
    habit,      \* the entry of data.habits with the id under study ({} when none)
    days,       \* data.days: date -> dayData.habits[id] of that id
    lastOp,     \* the DataManager operation that produced this state
    form,       \* the last submission of the habit form ({} before any)
    data,       \* DataManager.data: the habits and the day records
    answer,     \* what the last query returned ({} before any)
    enh,        \* AppEnhancements: the streak cache and the celebrations made
    db,         \* the IndexedDB object stores ({} when none is open)
    sync,       \* CloudStorageManager: its flag, its calls and the cloud's data
    inFlight,   \* the saveData calls started and not yet settled
    events      \* data.events: the stored calendar events

recVars   == <<event, candidate, result>>
habitVars == <<habit, days, lastOp>>
storeVars == <<form, data, answer>>
appVars   == <<enh, db, sync, inFlight, events>>
vars      == <<event, candidate, result, habit, days, lastOp, form, data, answer,
               enh, db, sync, inFlight, events>>

----------------------------------------------------------------------------
(* Bounds *)

\* the calendar covers the year before the epoch year and YearsAhead after it
YearsAhead == 2
\* candidate dates run from DaysBefore days before day 0 to day HorizonLast
DaysBefore  == 7
HorizonLast == 425
\* iterations of the last-weekday backward walk that are followed
MaxWalk == 40
\* recurrence.interval runs over 1..MaxInterval
MaxInterval == 2
\* recurrence.occurrences is 1 or MaxOccurrences
MaxOccurrences == 3
\* startValue and goalValue run over 1..MaxValue
MaxValue == 3
\* incrementValue and daysForIncrement run over 1..MaxStep
MaxStep == 2
\* setHabitComplete is called for the dates 1..MaxDates
MaxDates == 2
\* the streak calculator sees the days from StreakSpan days before today to today
StreakSpan == 3
\* checkMilestone is called with streaks in 0..MaxStreak
MaxStreak == 366
\* habit ids of the stored aggregate run over 1..MaxHabits
MaxHabits == 2

----------------------------------------------------------------------------
(* Optional values *)

None    == {}
Some(v) == {v}
Val(x)  == CHOOSE v \in x : TRUE
IsSet(x) == x # {}

----------------------------------------------------------------------------
(* Calendar: the part of Date the engine uses *)

EpochYear    == 2024
EpochWeekday == 1

IsLeapYear(y) == (y % 4 = 0 /\ y % 100 # 0) \/ y % 400 = 0

DaysInMonth(y, m) ==
    IF m = 2 THEN (IF IsLeapYear(y) THEN 29 ELSE 28)
    ELSE IF m \in {4, 6, 9, 11} THEN 30 ELSE 31

YearLength(y) == IF IsLeapYear(y) THEN 366 ELSE 365

RECURSIVE DaysBeforeYear(_)
DaysBeforeYear(y) ==
    IF y = EpochYear THEN 0
    ELSE IF y > EpochYear THEN DaysBeforeYear(y - 1) + YearLength(y - 1)
    ELSE DaysBeforeYear(y + 1) - YearLength(y)

RECURSIVE DaysBeforeMonth(_, _)
DaysBeforeMonth(y, m) ==
    IF m = 1 THEN 0 ELSE DaysBeforeMonth(y, m - 1) + DaysInMonth(y, m - 1)

\* new Date("YYYY-MM-DD"): the time value of that UTC midnight, in days
ParseDate(s) == DaysBeforeYear(s[1]) + DaysBeforeMonth(s[1], s[2]) + s[3] - 1

\* new Date(year, monthIndex, day): monthIndex is 0-based and may be 12,
\* day may lie outside the month (0, negative, past the end) and rolls over
NewDate(y, m0, day) ==
    IF m0 > 11 THEN DaysBeforeYear(y + 1) + DaysBeforeMonth(y + 1, m0 - 11) + day - 1
    ELSE DaysBeforeYear(y) + DaysBeforeMonth(y, m0 + 1) + day - 1

ValidDates ==
    { s \in ((EpochYear - 1)..(EpochYear + YearsAhead)) \X (1..12) \X (1..31) : s[3] <= DaysInMonth(s[1], s[2]) }

\* time value -> calendar fields, the inverse of ParseDate
Civil ==
    LET pairs == { <<ParseDate(s), s>> : s \in ValidDates }
    IN  [ t \in { p[1] : p \in pairs } |-> (CHOOSE p \in pairs : p[1] = t)[2] ]

GetFullYear(t) == Civil[t][1]
GetMonth(t)    == Civil[t][2] - 1
GetDate(t)     == Civil[t][3]
GetDay(t)      == (t + EpochWeekday) % 7

----------------------------------------------------------------------------
(* JavaScript arithmetic on values that may be undefined / NaN *)

Abs(n) == IF n < 0 THEN 0 - n ELSE n

\* a % b: NaN ({}) when b is undefined, NaN or 0; the sign follows a
Rem(a, b) ==
    IF ~IsSet(b) \/ Val(b) = 0 THEN None
    ELSE IF a >= 0 THEN Some(a % Abs(Val(b)))
    ELSE Some(0 - ((0 - a) % Abs(Val(b))))

\* if (x) for a number that may be missing
Truthy(x) == IsSet(x) /\ Val(x) # 0

Bool(b) == IF b THEN "true" ELSE "false"

----------------------------------------------------------------------------
(* DataManager.eventOccursOnDate *)

\* if (checkDate < eventStartDate) return false
HasNotStartedNever(checkDate, eventStartDate) == FALSE

HasNotStarted(checkDate, eventStartDate) == checkDate < eventStartDate

\* if (recurrence.endDate) { if (checkDate > new Date(endDate)) return false }
PastEndDateNever(recurrence, checkDate) == FALSE

PastEndDate(recurrence, checkDate) ==
    IsSet(recurrence.endDate) /\ checkDate > ParseDate(Val(recurrence.endDate))

\* if (recurrence.occurrences) return floor(diff / interval) + 1 <= occurrences;
\* return true
WithinOccurrences(recurrence, diff) ==
    IF Truthy(recurrence.occurrences)
    THEN Bool((diff \div Val(recurrence.interval)) + 1 <= Val(recurrence.occurrences))
    ELSE "true"

\* case 'daily' and case 'custom'
DailyOccursEveryDay(recurrence, daysDiff) == WithinOccurrences(recurrence, daysDiff)

DailyOccurs(recurrence, daysDiff) ==
    IF Rem(daysDiff, recurrence.interval) = Some(0)
    THEN WithinOccurrences(recurrence, daysDiff)
    ELSE "false"

\* the counting loop of case 'weekly': the days d from the anchor to checkDate
\* whose 7-day block is in scope and whose weekday is selected
WeeklyCount(recurrence, checkDate, eventStartDate) ==
    Cardinality({ d \in eventStartDate..checkDate :
        /\ Rem((d - eventStartDate) \div 7, recurrence.interval) = Some(0)
        /\ GetDay(d) \in Val(recurrence.daysOfWeek) })

\* date-utils getWeekStart(date, startDay): the startDay on or before date
getWeekStart(date, startDay) ==
    LET day  == GetDay(date)
        diff == (IF day < startDay THEN 7 ELSE 0) + day - startDay
    IN  date - diff

\* weeksDiff = Math.floor(daysDiff / 7)
WeeksDiffCalendar(checkDate, eventStartDate) ==
    (getWeekStart(checkDate, 0) - getWeekStart(eventStartDate, 0)) \div 7

WeeksDiff(checkDate, eventStartDate) == (checkDate - eventStartDate) \div 7

\* case 'weekly'
WeeklyOccurs(recurrence, checkDate, eventStartDate) ==
    IF IsSet(recurrence.daysOfWeek) /\ Val(recurrence.daysOfWeek) # {}
    THEN IF /\ Rem(WeeksDiff(checkDate, eventStartDate), recurrence.interval) = Some(0)
            /\ GetDay(checkDate) \in Val(recurrence.daysOfWeek)
         THEN IF Truthy(recurrence.occurrences)
              THEN Bool(WeeklyCount(recurrence, checkDate, eventStartDate)
                            <= Val(recurrence.occurrences))
              ELSE "true"
         ELSE "false"
    ELSE "false"

\* while (new Date(year, month, lastOccurrence).getDay() !== pattern.dayOfWeek)
\*     lastOccurrence--;
\* {n} when the loop exits with lastOccurrence = n, {} when it is still running
\* after MaxWalk decrements
RECURSIVE WalkBack(_, _, _, _, _)
WalkBack(year, month, lastOccurrence, dayOfWeek, steps) ==
    IF IsSet(dayOfWeek) /\ GetDay(NewDate(year, month, lastOccurrence)) = Val(dayOfWeek)
    THEN Some(lastOccurrence)
    ELSE IF steps >= MaxWalk THEN None
    ELSE WalkBack(year, month, lastOccurrence - 1, dayOfWeek, steps + 1)

\* pattern.week === -1: the last dayOfWeek of checkDate's month
LastWeekdayFromDay28(pattern, checkDate) ==
    WalkBack(GetFullYear(checkDate), GetMonth(checkDate), 28, pattern.dayOfWeek, 0)

LastWeekday(pattern, checkDate) ==
    LET lastDayOfMonth == NewDate(GetFullYear(checkDate), GetMonth(checkDate) + 1, 0)
    IN  WalkBack(GetFullYear(checkDate), GetMonth(checkDate),
                 GetDate(lastDayOfMonth), pattern.dayOfWeek, 0)

\* otherwise: 1 + daysUntilTarget + (week - 1) * 7, NaN ({}) when a field is
\* missing, and "return false" (here {}) when the date is not in the month
NthWeekdayFromWeekZero(pattern, checkDate) ==
    LET firstDayOfMonth == NewDate(GetFullYear(checkDate), GetMonth(checkDate), 1)
        firstDayOfWeek  == GetDay(firstDayOfMonth)
    IN  IF ~IsSet(pattern.week) \/ ~IsSet(pattern.dayOfWeek) THEN None
        ELSE Some(1 + Val(Rem(Val(pattern.dayOfWeek) - firstDayOfWeek + 7, Some(7)))
                    + Val(pattern.week) * 7)

NthWeekday(pattern, checkDate) ==
    LET firstDayOfMonth == NewDate(GetFullYear(checkDate), GetMonth(checkDate), 1)
        firstDayOfWeek  == GetDay(firstDayOfMonth)
    IN  IF ~IsSet(pattern.week) \/ ~IsSet(pattern.dayOfWeek) THEN None
        ELSE LET daysUntilTarget ==
                     Val(Rem(Val(pattern.dayOfWeek) - firstDayOfWeek + 7, Some(7)))
                 targetDate == 1 + daysUntilTarget + (Val(pattern.week) - 1) * 7
                 testDate == NewDate(GetFullYear(checkDate), GetMonth(checkDate), targetDate)
             IN  IF GetMonth(testDate) # GetMonth(checkDate) THEN None
                 ELSE Some(targetDate)

\* monthsDiff
MonthsDiff(checkDate, eventStartDate) ==
    (GetFullYear(checkDate) - GetFullYear(eventStartDate)) * 12
        + (GetMonth(checkDate) - GetMonth(eventStartDate))

\* case 'monthly'
MonthlyOccurs(recurrence, checkDate, eventStartDate) ==
    LET monthsDiff == MonthsDiff(checkDate, eventStartDate)
    IN  IF Rem(monthsDiff, recurrence.interval) = Some(0)
        THEN IF Truthy(recurrence.dayOfMonth)
             THEN IF GetDate(checkDate) = Val(recurrence.dayOfMonth)
                  THEN WithinOccurrences(recurrence, monthsDiff)
                  ELSE "false"
             ELSE IF IsSet(recurrence.monthlyPattern)
             THEN LET pattern == Val(recurrence.monthlyPattern)
                  IN  IF pattern.week = Some(0 - 1)
                      THEN LET targetDate == LastWeekday(pattern, checkDate)
                           IN  IF ~IsSet(targetDate) THEN "diverges"
                               ELSE IF GetDate(checkDate) = Val(targetDate)
                               THEN WithinOccurrences(recurrence, monthsDiff)
                               ELSE "false"
                      ELSE LET targetDate == NthWeekday(pattern, checkDate)
                           IN  IF ~IsSet(targetDate) THEN "false"
                               ELSE IF GetDate(checkDate) = Val(targetDate)
                               THEN WithinOccurrences(recurrence, monthsDiff)
                               ELSE "false"
             ELSE "false"
        ELSE "false"

\* case 'yearly'
YearlyOccurs(recurrence, checkDate, eventStartDate) ==
    LET yearsDiff == GetFullYear(checkDate) - GetFullYear(eventStartDate)
    IN  IF Rem(yearsDiff, recurrence.interval) = Some(0)
        THEN IF /\ GetMonth(checkDate) = GetMonth(eventStartDate)
                /\ GetDate(checkDate) = GetDate(eventStartDate)
             THEN WithinOccurrences(recurrence, yearsDiff)
             ELSE "false"
        ELSE "false"

\* eventOccursOnDate(event, date): "true", "false", or "diverges" when the
\* call does not return
eventOccursOnDate(ev, date) ==
    IF ~IsSet(ev.recurrence) THEN "false"
    ELSE LET checkDate      == ParseDate(date)
             eventStartDate == ParseDate(ev.date)
             recurrence     == Val(ev.recurrence)
             daysDiff       == checkDate - eventStartDate
         IN  IF HasNotStarted(checkDate, eventStartDate) THEN "false"
             ELSE IF PastEndDate(recurrence, checkDate) THEN "false"
             ELSE CASE recurrence.type = "daily"   -> DailyOccurs(recurrence, daysDiff)
                    [] recurrence.type = "weekly"  ->
                           WeeklyOccurs(recurrence, checkDate, eventStartDate)
                    [] recurrence.type = "monthly" ->
                           MonthlyOccurs(recurrence, checkDate, eventStartDate)
                    [] recurrence.type = "yearly"  ->
                           YearlyOccurs(recurrence, checkDate, eventStartDate)
                    [] recurrence.type = "custom"  -> DailyOccurs(recurrence, daysDiff)
                    [] OTHER -> "false"


----------------------------------------------------------------------------
(* Inputs of the occurrence check *)

Recurrence(type, interval, daysOfWeek, dayOfMonth, monthlyPattern, end) ==
    [ type |-> type, interval |-> interval, daysOfWeek |-> daysOfWeek,
      dayOfMonth |-> dayOfMonth, monthlyPattern |-> monthlyPattern,
      endDate |-> end[1], occurrences |-> end[2] ]

Pattern(week, dayOfWeek) == [ week |-> week, dayOfWeek |-> dayOfWeek ]

\* a Monday, a Wednesday, a month end after the month's last Friday, a leap day
Anchors == { <<2024, 1, 1>>, <<2024, 1, 3>>, <<2024, 1, 31>>, <<2024, 2, 29>> }

NoEnd == <<None, None>>

\* <<endDate, occurrences>>: none, a date, a count, and both at once
EndConditions ==
    { NoEnd, <<Some(<<2024, 3, 10>>), None>>, <<None, Some(1)>>,
      <<None, Some(MaxOccurrences)>>, <<Some(<<2024, 3, 10>>), Some(MaxOccurrences)>> }

Intervals == { Some(i) : i \in 1..MaxInterval }

DaysOfWeekChoices == { {1}, {1, 5}, {0, 3, 6} }

PatternChoices ==
    { Pattern(Some(w), Some(d)) : w \in {0 - 1, 1, 2, 3, 4, 5}, d \in {1, 5} }

WellFormedRules(end) ==
    { Recurrence(t, i, None, None, None, end) : t \in {"daily", "custom", "yearly"}, i \in Intervals }
    \cup { Recurrence("weekly", i, Some(w), None, None, end) : i \in Intervals, w \in DaysOfWeekChoices }
    \cup { Recurrence("monthly", i, None, Some(d), None, end) : i \in Intervals, d \in {15, 31} }
    \cup { Recurrence("monthly", i, None, None, Some(p), end) : i \in Intervals, p \in PatternChoices }

\* recurrences that break the data model: unknown type, missing or zero
\* interval, no daysOfWeek, no monthly sub-mode, incomplete monthlyPattern
MalformedRules ==
    { Recurrence("hourly", Some(1), None, None, None, NoEnd) }
    \cup { Recurrence(t, i, Some({1}), Some(15), None, NoEnd) :
             t \in {"daily", "weekly", "monthly", "yearly", "custom"}, i \in {None, Some(0)} }
    \cup { Recurrence("weekly", Some(1), w, None, None, NoEnd) : w \in {None, Some({})} }
    \cup { Recurrence("monthly", Some(1), None, None, None, NoEnd) }
    \cup { Recurrence("monthly", Some(1), None, None, Some(p), NoEnd) :
             p \in { Pattern(None, Some(1)), Pattern(Some(2), None), Pattern(None, None),
                     Pattern(Some(0 - 1), None), Pattern(Some(0 - 1), Some(7)) } }

AllWellFormedRules == UNION { WellFormedRules(e) : e \in EndConditions }

Events ==
    { [ date |-> a, recurrence |-> Some(r) ] : a \in Anchors, r \in AllWellFormedRules }
    \cup { [ date |-> a, recurrence |-> Some(r) ] : a \in Anchors, r \in MalformedRules }
    \cup { [ date |-> a, recurrence |-> None ] : a \in Anchors }

\* the candidate dates, as "YYYY-MM-DD"
Horizon == { Civil[t] : t \in (0 - DaysBefore)..HorizonLast }

----------------------------------------------------------------------------
(* The occurrence check as a state machine: the event is drawn from Events,  *)
(* then eventOccursOnDate is called on it with one candidate date.           *)

NoHabit == None

\* DataManager's constructor: no habits, no day records
EmptyData == [ habits |-> << >>, days |-> << >> ]

\* The parts of the application that an operation of another part leaves idle.
AppIdle ==
    /\ enh = None /\ db = None /\ sync = None /\ inFlight = 0 /\ events = << >>

InitRec ==
    /\ event \in Events
    /\ candidate = None
    /\ result = "none"
    /\ habit = NoHabit
    /\ days = << >>
    /\ lastOp = "none"
    /\ form = None /\ data = EmptyData /\ answer = None /\ AppIdle

CheckDate(date) ==
    /\ result = "none"
    /\ candidate' = Some(date)
    /\ result' = eventOccursOnDate(event, date)
    /\ UNCHANGED <<event, habit, days, lastOp>>
    /\ UNCHANGED <<storeVars, appVars>>

NextRec == \E date \in Horizon : CheckDate(date)

SpecRec == InitRec /\ [][NextRec]_vars


----------------------------------------------------------------------------
(* Vocabulary of the occurrence claims: the call that was made, and the      *)
(* calendar facts the claims compare it with                                 *)

Called     == result # "none"
Occurs     == result = "true"
Rule       == Val(event.recurrence)
AnchorDay  == ParseDate(event.date)
CandDay    == ParseDate(Val(candidate))
DaysAfter  == CandDay - AnchorDay
HasNoEnd   == ~IsSet(Rule.endDate) /\ ~IsSet(Rule.occurrences)
WellFormed == IsSet(event.recurrence) /\ Rule \in AllWellFormedRules
Malformed  == ~IsSet(event.recurrence) \/ Rule \in MalformedRules

\* t is the last day of its month with weekday w
IsLastWeekdayOfMonth(t, w) == GetDay(t) = w /\ GetMonth(t + 7) # GetMonth(t)

\* t is the k-th day of its month with weekday w
IsNthWeekdayOfMonth(t, k, w) == GetDay(t) = w /\ (GetDate(t) - 1) \div 7 = k - 1

\* calendar months from the anchor's month to the candidate's month
MonthDistance == (Civil[CandDay][1] - Civil[AnchorDay][1]) * 12 + (Civil[CandDay][2] - Civil[AnchorDay][2])

\* the stored event with its occurrences limit / its endDate removed
WithoutOccurrences == [ event EXCEPT !.recurrence = Some([ Rule EXCEPT !.occurrences = None ]) ]
WithoutEndDate     == [ event EXCEPT !.recurrence = Some([ Rule EXCEPT !.endDate = None ]) ]

\* how many dates from the anchor to the candidate the unlimited rule matches
RankOfCandidate ==
    Cardinality({ t \in AnchorDay..CandDay : eventOccursOnDate(WithoutOccurrences, Civil[t]) = "true" })


----------------------------------------------------------------------------
(* Claims about the occurrence engine, checked under SpecRec *)

\* C1 (as claimed): with occurrences = N and no endDate, the dates that occur
\* are exactly the first N dates, counted from the anchor, that the same rule
\* without the limit matches.
C1_ExactlyNOccurrences ==
    (Called /\ WellFormed /\ Truthy(Rule.occurrences) /\ ~IsSet(Rule.endDate)) =>
        (Occurs <=> /\ CandDay >= AnchorDay
                    /\ eventOccursOnDate(WithoutOccurrences, Val(candidate)) = "true"
                    /\ RankOfCandidate <= Val(Rule.occurrences))

IsWeekly == WellFormed /\ Rule.type = "weekly" /\ HasNoEnd

\* C2 (as claimed): a weekly rule without end condition occurs exactly on the
\* selected weekdays, on or after the anchor, of the calendar weeks whose
\* distance from the anchor's calendar week is a multiple of interval.
C2_CalendarWeeks ==
    (Called /\ IsWeekly) =>
        (Occurs <=> /\ CandDay >= AnchorDay
                    /\ GetDay(CandDay) \in Val(Rule.daysOfWeek)
                    /\ ((getWeekStart(CandDay, 0) - getWeekStart(AnchorDay, 0)) \div 7)
                           % Val(Rule.interval) = 0)

\* C2 (amended): a weekly rule without end condition occurs exactly on the
\* selected weekdays, on or after the anchor, for which the number of whole
\* 7-day periods elapsed since the anchor date is a multiple of interval.
C2_WeeksFromAnchor ==
    (Called /\ IsWeekly) =>
        (Occurs <=> /\ CandDay >= AnchorDay
                    /\ GetDay(CandDay) \in Val(Rule.daysOfWeek)
                    /\ (DaysAfter \div 7) % Val(Rule.interval) = 0)

\* a Monday 5 days after a Wednesday anchor, every 2 weeks: the next calendar
\* week, but the anchor's own 7-day period
C2_Witness ==
    /\ Called /\ IsWeekly /\ Occurs
    /\ Rule.interval = Some(2)
    /\ GetDay(AnchorDay) = 3 /\ GetDay(CandDay) = 1 /\ DaysAfter = 5

IsLastFriday ==
    /\ WellFormed /\ Rule.type = "monthly" /\ Rule.interval = Some(1) /\ HasNoEnd
    /\ Rule.monthlyPattern = Some(Pattern(Some(0 - 1), Some(5)))

\* C3 (as claimed): for the last-Friday rule, in every calendar month from the
\* anchor's month on, the one date that occurs is the month's last Friday.
C3_EveryMonthFromAnchor ==
    (Called /\ IsLastFriday /\ MonthDistance >= 0) =>
        (Occurs <=> IsLastWeekdayOfMonth(CandDay, 5))

\* C3 (amended): for the last-Friday rule, a date occurs exactly when it is the
\* last Friday of its month and is not before the anchor; so every month whose
\* last Friday is on or after the anchor has exactly one occurrence.
C3_LastFridayOnOrAfterAnchor ==
    (Called /\ IsLastFriday) =>
        (Occurs <=> (IsLastWeekdayOfMonth(CandDay, 5) /\ CandDay >= AnchorDay))

\* 2024-02-23, the last Friday of February 2024, occurs
C3_Witness ==
    Called /\ IsLastFriday /\ candidate = Some(<<2024, 2, 23>>) /\ Occurs

IsNthWeekdayRule ==
    /\ WellFormed /\ Rule.type = "monthly" /\ IsSet(Rule.monthlyPattern)
    /\ Val(Val(Rule.monthlyPattern).week) >= 1

PatternWeek == Val(Val(Rule.monthlyPattern).week)
PatternDay  == Val(Val(Rule.monthlyPattern).dayOfWeek)

\* C4 (as claimed): for pattern {week: k >= 1, dayOfWeek: w}, a date in a month
\* at a multiple of interval from the anchor's month occurs exactly when it is
\* the k-th w of its month.
C4_NthWeekdayAnyDate ==
    (Called /\ IsNthWeekdayRule /\ MonthDistance % Val(Rule.interval) = 0) =>
        (Occurs <=> IsNthWeekdayOfMonth(CandDay, PatternWeek, PatternDay))

\* C4 (amended): such a date occurs exactly when it is the k-th w of its month,
\* is not before the anchor, and is inside the end condition (not after
\* endDate, month index + 1 within occurrences).
C4_NthWeekdayInWindow ==
    (Called /\ IsNthWeekdayRule /\ MonthDistance % Val(Rule.interval) = 0) =>
        (Occurs <=> /\ IsNthWeekdayOfMonth(CandDay, PatternWeek, PatternDay)
                    /\ CandDay >= AnchorDay
                    /\ IsSet(Rule.endDate) => CandDay <= ParseDate(Val(Rule.endDate))
                    /\ IsSet(Rule.occurrences) =>
                           (MonthDistance \div Val(Rule.interval)) + 1 <= Val(Rule.occurrences))

\* a month with only four Mondays is asked for its 5th: the 4th Monday, the
\* last one, does not occur
C4_Witness ==
    /\ Called /\ IsNthWeekdayRule /\ HasNoEnd /\ CandDay >= AnchorDay
    /\ PatternWeek = 5 /\ PatternDay = 1
    /\ IsNthWeekdayOfMonth(CandDay, 4, 1) /\ GetMonth(CandDay + 7) # GetMonth(CandDay)
    /\ MonthDistance % Val(Rule.interval) = 0
    /\ result = "false"

IsDaily == WellFormed /\ Rule.type \in {"daily", "custom"} /\ HasNoEnd

\* C5: a daily or custom rule without end condition occurs exactly on the
\* dates d >= 0 whole days after the anchor with d mod interval = 0.
C5_DailyEveryInterval ==
    (Called /\ IsDaily) =>
        (Occurs <=> (DaysAfter >= 0 /\ DaysAfter % Val(Rule.interval) = 0))

C5_Witness ==
    Called /\ IsDaily /\ Rule.interval = Some(2) /\ DaysAfter = 4 /\ Occurs

\* C6: a date that occurs is never before the anchor and never after endDate.
C6_InsideWindow ==
    (Called /\ Occurs) =>
        /\ CandDay >= AnchorDay
        /\ IsSet(Rule.endDate) => CandDay <= ParseDate(Val(Rule.endDate))

\* the day after endDate of a rule that would otherwise match it
C6_Witness ==
    /\ Called /\ WellFormed /\ IsSet(Rule.endDate)
    /\ CandDay = ParseDate(Val(Rule.endDate)) + 1
    /\ eventOccursOnDate(WithoutEndDate, Val(candidate)) = "true"
    /\ result = "false"

\* C7 (as claimed): a malformed recurrence makes the call return false.
C7_MalformedReturnsFalse ==
    (Called /\ Malformed) => result = "false"

HasBothEnds == IsSet(event.recurrence) /\ IsSet(Rule.endDate) /\ IsSet(Rule.occurrences)

\* C8 (as claimed): an event with both endDate and occurrences never occurs.
C8_BothEndsNeverOccurs ==
    (Called /\ HasBothEnds) => result = "false"

\* C8 (amended): an event with both endDate and occurrences occurs exactly on
\* the dates not after endDate on which the same rule with only the
\* occurrences limit occurs.
C8_BothEndsApply ==
    (Called /\ HasBothEnds) =>
        (Occurs <=> /\ CandDay <= ParseDate(Val(Rule.endDate))
                    /\ eventOccursOnDate(WithoutEndDate, Val(candidate)) = "true")

\* the occurrences limit alone would allow the date, endDate cuts it off
C8_Witness ==
    /\ Called /\ HasBothEnds
    /\ CandDay > ParseDate(Val(Rule.endDate))
    /\ eventOccursOnDate(WithoutEndDate, Val(candidate)) = "true"
    /\ result = "false"


----------------------------------------------------------------------------
(* Build-up habits: DataManager.addHabit, updateHabit, deleteHabit and       *)
(* setHabitComplete, for one habit id.  The operations find the habit by id  *)
(* and read and write that entry of data.habits only.                        *)

\* the buildUpConfig the habit form passes after its validation: numbers,
\* all > 0, goalValue > startValue
FormConfigs ==
    { [ startValue |-> s, goalValue |-> g, incrementValue |-> i, daysForIncrement |-> d ] :
        s \in 1..MaxValue, g \in 1..MaxValue, i \in 1..MaxStep, d \in 1..MaxStep }

ValidFormConfigGoalAtStart(c) ==
    /\ c.startValue > 0 /\ c.goalValue > 0 /\ c.incrementValue > 0 /\ c.daysForIncrement > 0
    /\ c.goalValue >= c.startValue

ValidFormConfig(c) ==
    /\ c.startValue > 0 /\ c.goalValue > 0 /\ c.incrementValue > 0 /\ c.daysForIncrement > 0
    /\ c.goalValue > c.startValue

\* what the form hands to addHabit / updateHabit: <<isBuildUpHabit, buildUpConfig>>
FormInputs ==
    { <<FALSE, None>> } \cup { <<TRUE, Some(c)>> : c \in { x \in FormConfigs : ValidFormConfig(x) } }

HabitDates == 1..MaxDates

Min(a, b) == IF a <= b THEN a ELSE b

BuildUpConfig(c, currentValue, currentStreak) ==
    [ startValue |-> c.startValue, goalValue |-> c.goalValue,
      incrementValue |-> c.incrementValue, daysForIncrement |-> c.daysForIncrement,
      currentValue |-> currentValue, currentStreak |-> currentStreak ]

\* addHabit: currentValue: buildUpConfig.currentValue || startValue,
\* currentStreak: buildUpConfig.currentStreak || 0 (the form passes neither)
NewHabit(isBuildUpHabit, buildUpConfig) ==
    [ isBuildUpHabit |-> isBuildUpHabit,
      buildUpConfig  |-> IF isBuildUpHabit /\ IsSet(buildUpConfig)
                         THEN Some(BuildUpConfig(Val(buildUpConfig), Val(buildUpConfig).startValue, 0))
                         ELSE None ]

\* updateHabit: the progress of an existing buildUpConfig is preserved
UpdatedHabit(existingHabit, isBuildUpHabit, buildUpConfig) ==
    [ isBuildUpHabit |-> isBuildUpHabit,
      buildUpConfig  |->
        IF isBuildUpHabit /\ IsSet(buildUpConfig)
        THEN LET currentValue  == IF IsSet(existingHabit.buildUpConfig)
                                  THEN Val(existingHabit.buildUpConfig).currentValue
                                  ELSE Val(buildUpConfig).startValue
                 currentStreak == IF IsSet(existingHabit.buildUpConfig)
                                  THEN Val(existingHabit.buildUpConfig).currentStreak
                                  ELSE 0
             IN  Some(BuildUpConfig(Val(buildUpConfig), currentValue, currentStreak))
        ELSE IF ~isBuildUpHabit THEN None
        ELSE existingHabit.buildUpConfig ]

\* setHabitComplete, completed = true: the streak grows, and on reaching
\* daysForIncrement the value steps up (not past the goal) and the streak resets
CompletedConfigUnclamped(config) ==
    LET streak == config.currentStreak + 1
    IN  IF streak >= config.daysForIncrement
        THEN [ config EXCEPT !.currentValue = config.currentValue + config.incrementValue,
                             !.currentStreak = 0 ]
        ELSE [ config EXCEPT !.currentStreak = streak ]

CompletedConfig(config) ==
    LET streak == config.currentStreak + 1
    IN  IF streak >= config.daysForIncrement
        THEN [ config EXCEPT !.currentValue = Min(config.currentValue + config.incrementValue,
                                                  config.goalValue),
                             !.currentStreak = 0 ]
        ELSE [ config EXCEPT !.currentStreak = streak ]

\* setHabitComplete, completed = false
UncompletedConfigReverting(config) ==
    [ config EXCEPT !.currentStreak = 0,
                    !.currentValue = config.currentValue - config.incrementValue ]

UncompletedConfig(config) == [ config EXCEPT !.currentStreak = 0 ]

IsBuildUp(h) == IsSet(h) /\ Val(h).isBuildUpHabit /\ IsSet(Val(h).buildUpConfig)

Config(h) == Val(Val(h).buildUpConfig)

InitHabit ==
    /\ habit = NoHabit
    /\ days = << >>
    /\ lastOp = "none"
    /\ event = [ date |-> <<2024, 1, 1>>, recurrence |-> None ]
    /\ candidate = None
    /\ result = "none"
    /\ form = None /\ data = EmptyData /\ answer = None /\ AppIdle

addHabit(isBuildUpHabit, buildUpConfig) ==
    /\ ~IsSet(habit)
    /\ habit' = Some(NewHabit(isBuildUpHabit, buildUpConfig))
    /\ lastOp' = "addHabit"
    /\ UNCHANGED <<days, event, candidate, result>>
    /\ UNCHANGED <<storeVars, appVars>>

updateHabit(isBuildUpHabit, buildUpConfig) ==
    /\ IsSet(habit)
    /\ habit' = Some(UpdatedHabit(Val(habit), isBuildUpHabit, buildUpConfig))
    /\ lastOp' = "updateHabit"
    /\ UNCHANGED <<days, event, candidate, result>>
    /\ UNCHANGED <<storeVars, appVars>>

deleteHabit ==
    /\ IsSet(habit)
    /\ habit' = NoHabit
    /\ lastOp' = "deleteHabit"
    /\ UNCHANGED <<days, event, candidate, result>>
    /\ UNCHANGED <<storeVars, appVars>>

setHabitComplete(date, completed) ==
    /\ habit' = IF IsBuildUp(habit)
                THEN Some([ Val(habit) EXCEPT !.buildUpConfig =
                              Some(IF completed THEN CompletedConfig(Config(habit))
                                   ELSE UncompletedConfig(Config(habit))) ])
                ELSE habit
    /\ days' = [ d \in DOMAIN days \cup {date} |-> IF d = date THEN completed ELSE days[d] ]
    /\ lastOp' = IF completed THEN "setHabitComplete(true)" ELSE "setHabitComplete(false)"
    /\ UNCHANGED <<event, candidate, result>>
    /\ UNCHANGED <<storeVars, appVars>>

NextHabit ==
    \/ \E in \in FormInputs : addHabit(in[1], in[2])
    \/ \E in \in FormInputs : updateHabit(in[1], in[2])
    \/ deleteHabit
    \/ \E date \in HabitDates, completed \in BOOLEAN : setHabitComplete(date, completed)

SpecHabit == InitHabit /\ [][NextHabit]_vars

----------------------------------------------------------------------------
(* The habit form's submit handler.  A numeric field is kept as what         *)
(* parseFloat / parseInt make of its text: NaN ({}) or a number.             *)

NaN == None

isNaN(x) == ~IsSet(x)

FieldValues(max) == { NaN } \cup { Some(n) : n \in (0 - 1)..max }

FormFields ==
    [ startValue : FieldValues(MaxValue), goalValue : FieldValues(MaxValue),
      incrementValue : FieldValues(MaxStep), daysForIncrement : FieldValues(MaxStep) ]

BlankFields ==
    [ startValue |-> NaN, goalValue |-> NaN, incrementValue |-> NaN, daysForIncrement |-> NaN ]

\* name: whether the trimmed name is non-empty; the build-up fields are read
\* only when the checkbox is checked
Submissions ==
    { [ name |-> n, isBuildUpHabit |-> TRUE, fields |-> f ] : n \in BOOLEAN, f \in FormFields }
    \cup { [ name |-> n, isBuildUpHabit |-> FALSE, fields |-> BlankFields ] : n \in BOOLEAN }

ParsedFields(f) ==
    [ startValue |-> Val(f.startValue), goalValue |-> Val(f.goalValue),
      incrementValue |-> Val(f.incrementValue), daysForIncrement |-> Val(f.daysForIncrement) ]

\* the handler's three checks, each ending in alert(...) and return
FormRejects(f) ==
    IF isNaN(f.startValue) \/ isNaN(f.goalValue)
           \/ isNaN(f.incrementValue) \/ isNaN(f.daysForIncrement)
    THEN TRUE
    ELSE ~ValidFormConfig(ParsedFields(f))

\* the habits the form is opened on: none yet (add), or an existing one (edit)
FormHabits ==
    { NoHabit } \cup { Some(NewHabit(in[1], in[2])) : in \in FormInputs }

InitForm ==
    /\ habit \in FormHabits
    /\ days = << >>
    /\ lastOp = "none"
    /\ event = [ date |-> <<2024, 1, 1>>, recurrence |-> None ]
    /\ candidate = None
    /\ result = "none"
    /\ form = None /\ data = EmptyData /\ answer = None /\ AppIdle

\* habit-form onsubmit; dataset.editingId is set when the form edits the habit
habitFormSubmit(s) ==
    LET rejected      == s.isBuildUpHabit /\ FormRejects(s.fields)
        buildUpConfig == IF s.isBuildUpHabit THEN Some(ParsedFields(s.fields)) ELSE None
    IN  /\ form = None
        /\ form' = Some(s)
        /\ \/ /\ rejected
              /\ lastOp' = "habitFormRejected"
              /\ UNCHANGED habit
           \/ /\ ~rejected /\ ~s.name
              /\ lastOp' = "habitFormIgnored"
              /\ UNCHANGED habit
           \/ /\ ~rejected /\ s.name /\ IsSet(habit)
              /\ habit' = Some(UpdatedHabit(Val(habit), s.isBuildUpHabit, buildUpConfig))
              /\ lastOp' = "updateHabit"
           \/ /\ ~rejected /\ s.name /\ ~IsSet(habit)
              /\ habit' = Some(NewHabit(s.isBuildUpHabit, buildUpConfig))
              /\ lastOp' = "addHabit"
        /\ UNCHANGED <<days, event, candidate, result, data, answer, appVars>>

NextForm == \E s \in Submissions : habitFormSubmit(s)

SpecForm == InitForm /\ [][NextForm]_vars

----------------------------------------------------------------------------
(* The stored aggregate read by the streak calculator and by getDayStatus.   *)
(* data.habits maps a habit id to its definition, data.days maps a date      *)
(* string to its day record; a day record's habits map may be missing        *)
(* (undefined), and a completion flag is the JavaScript value true, false    *)
(* or 1, written "true", "false", "1".  A habit's createdAt is kept as the   *)
(* day it falls on.                                                          *)

\* new Date() on the day of the run: 2024-03-02
Today == 61

\* date-utils
formatDate(t) == Civil[t]

parseDate(dateStr) == NewDate(dateStr[1], dateStr[2] - 1, dateStr[3])

addDays(t, n) == NewDate(GetFullYear(t), GetMonth(t), GetDate(t) + n)

getTodayString == formatDate(NewDate(GetFullYear(Today), GetMonth(Today), GetDate(Today)))

Flags == { "true", "false", "1" }

\* dayData && dayData.habits && dayData.habits[habitId] === true
IsCompletedTruthy(habitId, daysData, dateStr) ==
    /\ dateStr \in DOMAIN daysData
    /\ IsSet(daysData[dateStr].habits)
    /\ habitId \in DOMAIN Val(daysData[dateStr].habits)
    /\ Val(daysData[dateStr].habits)[habitId] \in { "true", "1" }

IsCompleted(habitId, daysData, dateStr) ==
    /\ dateStr \in DOMAIN daysData
    /\ IsSet(daysData[dateStr].habits)
    /\ habitId \in DOMAIN Val(daysData[dateStr].habits)
    /\ Val(daysData[dateStr].habits)[habitId] = "true"

----------------------------------------------------------------------------
(* streak-calculator *)

RECURSIVE CurrentStreakFrom(_, _, _)
CurrentStreakFrom(habitId, daysData, currentDate) ==
    IF IsCompleted(habitId, daysData, formatDate(currentDate))
    THEN 1 + CurrentStreakFrom(habitId, daysData, addDays(currentDate, 0 - 1))
    ELSE 0

calculateCurrentStreak(habitId, daysData) ==
    CurrentStreakFrom(habitId, daysData, parseDate(getTodayString))

\* new Date(createdDate.getFullYear(), createdDate.getMonth(), createdDate.getDate())
CreatedDay(habitCreatedAt) ==
    NewDate(GetFullYear(habitCreatedAt), GetMonth(habitCreatedAt), GetDate(habitCreatedAt))

\* if (currentStreakCount > longestStreak)
IsLongerOrEqual(currentStreakCount, longestStreak) == currentStreakCount >= longestStreak

IsLonger(currentStreakCount, longestStreak) == currentStreakCount > longestStreak

\* one iteration of calculateLongestStreak's loop body
LongestStep(habitId, daysData, currentDate, acc) ==
    IF IsCompleted(habitId, daysData, formatDate(currentDate))
    THEN [ acc EXCEPT !.currentStreakStart = IF acc.currentStreakCount = 0
                                             THEN Some(currentDate) ELSE @,
                      !.currentStreakCount = @ + 1 ]
    ELSE IF IsLonger(acc.currentStreakCount, acc.longestStreak)
         THEN [ longestStreak |-> acc.currentStreakCount,
                longestStart |-> acc.currentStreakStart,
                longestEnd |-> Some(addDays(currentDate, 0 - 1)),
                currentStreakCount |-> 0, currentStreakStart |-> None ]
         ELSE [ acc EXCEPT !.currentStreakCount = 0, !.currentStreakStart = None ]

RECURSIVE LongestScan(_, _, _, _, _)
LongestScan(habitId, daysData, currentDate, today, acc) ==
    IF currentDate <= today
    THEN LongestScan(habitId, daysData, addDays(currentDate, 1), today,
                     LongestStep(habitId, daysData, currentDate, acc))
    ELSE acc

\* calculateLongestStreak with the clock's reading as a parameter
LongestStreakAt(habitId, daysData, habitCreatedAt, today) ==
    LET start == [ longestStreak |-> 0, longestStart |-> None, longestEnd |-> None,
                   currentStreakCount |-> 0, currentStreakStart |-> None ]
        acc   == LongestScan(habitId, daysData, CreatedDay(habitCreatedAt), today, start)
        final == IF IsLonger(acc.currentStreakCount, acc.longestStreak)
                 THEN [ acc EXCEPT !.longestStreak = acc.currentStreakCount,
                                   !.longestStart = acc.currentStreakStart,
                                   !.longestEnd = Some(today) ]
                 ELSE acc
    IN  [ count     |-> final.longestStreak,
          startDate |-> IF IsSet(final.longestStart)
                        THEN Some(formatDate(Val(final.longestStart))) ELSE None,
          endDate   |-> IF IsSet(final.longestEnd)
                        THEN Some(formatDate(Val(final.longestEnd))) ELSE None ]

calculateLongestStreak(habitId, daysData, habitCreatedAt) ==
    LongestStreakAt(habitId, daysData, habitCreatedAt, Today)

\* streaks.push({count, startDate, endDate}) when a run ends before currentDate
ClosedStreakOffByOne(currentStreakCount, currentStreakStart, currentDate) ==
    [ count     |-> currentStreakCount,
      startDate |-> formatDate(currentStreakStart),
      endDate   |-> formatDate(currentDate) ]

ClosedStreak(currentStreakCount, currentStreakStart, currentDate) ==
    [ count     |-> currentStreakCount,
      startDate |-> formatDate(currentStreakStart),
      endDate   |-> formatDate(addDays(currentDate, 0 - 1)) ]

\* one iteration of getAllStreaks's loop body
AllStreaksStep(habitId, daysData, currentDate, acc) ==
    IF IsCompleted(habitId, daysData, formatDate(currentDate))
    THEN [ acc EXCEPT !.currentStreakStart = IF acc.currentStreakCount = 0
                                             THEN Some(currentDate) ELSE @,
                      !.currentStreakCount = @ + 1 ]
    ELSE [ streaks |-> IF acc.currentStreakCount > 0
                       THEN Append(acc.streaks,
                                   ClosedStreak(acc.currentStreakCount,
                                                Val(acc.currentStreakStart), currentDate))
                       ELSE acc.streaks,
           currentStreakCount |-> 0, currentStreakStart |-> None ]

RECURSIVE AllStreaksScan(_, _, _, _, _)
AllStreaksScan(habitId, daysData, currentDate, today, acc) ==
    IF currentDate <= today
    THEN AllStreaksScan(habitId, daysData, addDays(currentDate, 1), today,
                        AllStreaksStep(habitId, daysData, currentDate, acc))
    ELSE acc

getAllStreaks(habitId, daysData, habitCreatedAt) ==
    LET start == [ streaks |-> << >>, currentStreakCount |-> 0, currentStreakStart |-> None ]
        acc   == AllStreaksScan(habitId, daysData, CreatedDay(habitCreatedAt), Today, start)
    IN  IF acc.currentStreakCount > 0
        THEN Append(acc.streaks,
                    [ count     |-> acc.currentStreakCount,
                      startDate |-> formatDate(Val(acc.currentStreakStart)),
                      endDate   |-> formatDate(Today) ])
        ELSE acc.streaks

STREAK_MILESTONES == <<7, 30, 100, 365>>

\* for (const milestone of STREAK_MILESTONES), from the i-th milestone on
RECURSIVE MilestoneFrom(_, _, _)
MilestoneFrom(i, previousStreak, currentStreak) ==
    IF i > Len(STREAK_MILESTONES) THEN None
    ELSE IF currentStreak >= STREAK_MILESTONES[i] /\ previousStreak < STREAK_MILESTONES[i]
         THEN Some(STREAK_MILESTONES[i])
         ELSE MilestoneFrom(i + 1, previousStreak, currentStreak)

\* the last crossed milestone instead of the first
RECURSIVE MilestoneDownFrom(_, _, _)
MilestoneDownFrom(i, previousStreak, currentStreak) ==
    IF i < 1 THEN None
    ELSE IF currentStreak >= STREAK_MILESTONES[i] /\ previousStreak < STREAK_MILESTONES[i]
         THEN Some(STREAK_MILESTONES[i])
         ELSE MilestoneDownFrom(i - 1, previousStreak, currentStreak)

checkMilestoneLastCrossed(previousStreak, currentStreak) ==
    MilestoneDownFrom(Len(STREAK_MILESTONES), previousStreak, currentStreak)

checkMilestone(previousStreak, currentStreak) ==
    MilestoneFrom(1, previousStreak, currentStreak)

\* the first milestone above the streak, null ({}) past the last one
RECURSIVE NextMilestoneFrom(_, _)
NextMilestoneFrom(i, currentStreak) ==
    IF i > Len(STREAK_MILESTONES) THEN None
    ELSE IF currentStreak < STREAK_MILESTONES[i] THEN Some(STREAK_MILESTONES[i])
         ELSE NextMilestoneFrom(i + 1, currentStreak)

getNextMilestone(currentStreak) == NextMilestoneFrom(1, currentStreak)

getStreakStatus(habitId, daysData, habitCreatedAt) ==
    LET current   == calculateCurrentStreak(habitId, daysData)
        longest   == calculateLongestStreak(habitId, daysData, habitCreatedAt)
        today     == getTodayString
        yesterday == formatDate(addDays(Today, -1))
    IN  [ current            |-> current,
          longest            |-> longest.count,
          longestPeriod      |-> longest,
          completedToday     |-> IsCompleted(habitId, daysData, today),
          completedYesterday |-> IsCompleted(habitId, daysData, yesterday),
          isActive           |-> current > 0,
          nextMilestone      |-> getNextMilestone(current) ]

\* the status of every habit that is not archived
calculateAllStreaks(habits, daysData) ==
    [ id \in { h \in DOMAIN habits : ~habits[h].archived }
        |-> getStreakStatus(id, daysData, habits[id].createdAt) ]

isStreakAtRisk(habitId, daysData) ==
    IF IsCompleted(habitId, daysData, getTodayString) THEN FALSE
    ELSE calculateCurrentStreak(habitId, daysData) > 0

----------------------------------------------------------------------------
(* The streak calculator as a state machine: the aggregate holds one habit   *)
(* and any day records for the last StreakSpan + 1 days, then one function   *)
(* of the calculator is called on it.                                        *)

StreakDays == (Today - StreakSpan)..Today

\* a day's record: none, one without its habits map, one whose map has no
\* entry for the habit, or one with a flag for the habit
StreakEntries ==
    { None, Some([ habits |-> None ]), Some([ habits |-> Some(<< >>) ]) }
    \cup { Some([ habits |-> Some(1 :> f) ]) : f \in Flags }

DaysOf(entries) ==
    [ dateStr \in { formatDate(t) : t \in { u \in DOMAIN entries : IsSet(entries[u]) } }
        |-> Val(entries[ParseDate(dateStr)]) ]

StreakData ==
    { [ habits |-> (1 :> [ archived |-> FALSE, createdAt |-> c ]), days |-> DaysOf(e) ] :
        e \in [ StreakDays -> StreakEntries ], c \in StreakDays }

InitStreak ==
    /\ data \in StreakData
    /\ form = None /\ answer = None /\ AppIdle
    /\ habit = NoHabit /\ days = << >> /\ lastOp = "none"
    /\ event = [ date |-> <<2024, 1, 1>>, recurrence |-> None ]
    /\ candidate = None /\ result = "none"

Answer(op, value) == Some([ op |-> op, value |-> value ])

CurrentStreakQuery(habitId) ==
    /\ answer' = Answer("calculateCurrentStreak", calculateCurrentStreak(habitId, data.days))
    /\ lastOp' = "calculateCurrentStreak"
    /\ UNCHANGED <<form, data, recVars, habit, days, appVars>>

LongestStreakQuery(habitId) ==
    /\ answer' = Answer("calculateLongestStreak",
                        calculateLongestStreak(habitId, data.days, data.habits[habitId].createdAt))
    /\ lastOp' = "calculateLongestStreak"
    /\ UNCHANGED <<form, data, recVars, habit, days, appVars>>

AllStreaksQuery(habitId) ==
    /\ answer' = Answer("getAllStreaks",
                        getAllStreaks(habitId, data.days, data.habits[habitId].createdAt))
    /\ lastOp' = "getAllStreaks"
    /\ UNCHANGED <<form, data, recVars, habit, days, appVars>>

StreakStatusQuery(habitId) ==
    /\ answer' = Answer("getStreakStatus",
                        getStreakStatus(habitId, data.days, data.habits[habitId].createdAt))
    /\ lastOp' = "getStreakStatus"
    /\ UNCHANGED <<form, data, recVars, habit, days, appVars>>

StreakAtRiskQuery(habitId) ==
    /\ answer' = Answer("isStreakAtRisk", isStreakAtRisk(habitId, data.days))
    /\ lastOp' = "isStreakAtRisk"
    /\ UNCHANGED <<form, data, recVars, habit, days, appVars>>

\* one call per run
NextStreak ==
    /\ answer = None
    /\ \E habitId \in DOMAIN data.habits :
            \/ CurrentStreakQuery(habitId)
            \/ LongestStreakQuery(habitId)
            \/ AllStreaksQuery(habitId)
            \/ StreakStatusQuery(habitId)
            \/ StreakAtRiskQuery(habitId)

SpecStreak == InitStreak /\ [][NextStreak]_vars

\* checkMilestone called once with any two streak counts
InitMilestone ==
    /\ data = EmptyData
    /\ form = None /\ answer = None /\ AppIdle
    /\ habit = NoHabit /\ days = << >> /\ lastOp = "none"
    /\ event = [ date |-> <<2024, 1, 1>>, recurrence |-> None ]
    /\ candidate = None /\ result = "none"

MilestoneQuery(previousStreak, currentStreak) ==
    /\ answer' = Some([ op |-> "checkMilestone", previousStreak |-> previousStreak,
                        currentStreak |-> currentStreak,
                        value |-> checkMilestone(previousStreak, currentStreak) ])
    /\ UNCHANGED <<form, data, recVars, habitVars, appVars>>

\* one call per run
NextMilestone ==
    /\ answer = None
    /\ \E previousStreak \in 0..MaxStreak, currentStreak \in 0..MaxStreak :
            MilestoneQuery(previousStreak, currentStreak)

SpecMilestone == InitMilestone /\ [][NextMilestone]_vars

----------------------------------------------------------------------------
(* DataManager over the whole aggregate: habits are added, archived,         *)
(* unarchived and deleted, completions are set for today and tomorrow, a     *)
(* backup file is imported, and the day status and the streaks are queried.  *)
(* The habits here are plain ones (isBuildUpHabit false); an imported file   *)
(* brings day records only.  A query that throws answers "TypeError".        *)

HabitIds == 1..MaxHabits

StoreDays == { Today, Today + 1 }

\* DataManager.formatDate: toISOString().split('T')[0]
toISODate(t) == Civil[t]

\* { habits: {}, tracking: {} }
EmptyRecord == [ habits |-> Some(<< >>) ]

\* getDayData: the day records after the call, the date's record created when missing
getDayData(daysData, dateStr) ==
    IF dateStr \in DOMAIN daysData THEN daysData
    ELSE [ k \in DOMAIN daysData \cup {dateStr} |->
             IF k = dateStr THEN EmptyRecord ELSE daysData[k] ]

IsTruthyFlag(f) == f \in { "true", "1" }

\* getDayStatus's return value ("TypeError": dayData.habits is undefined)
DayStatus(d, date) ==
    IF date > Today THEN "gray"
    ELSE LET dayData      == getDayData(d.days, toISODate(date))[toISODate(date)]
             activeHabits == { h \in DOMAIN d.habits : ~d.habits[h].archived }
             totalHabits  == Cardinality(activeHabits)
         IN  IF totalHabits = 0 THEN "gray"
             ELSE IF ~IsSet(dayData.habits) THEN "TypeError"
             ELSE LET completedHabits ==
                          Cardinality({ h \in activeHabits :
                                          /\ h \in DOMAIN Val(dayData.habits)
                                          /\ IsTruthyFlag(Val(dayData.habits)[h]) })
                  IN  IF completedHabits = 0 THEN "red"
                      ELSE IF completedHabits = totalHabits THEN "green"
                      ELSE "yellow"

\* ids already seen in the aggregate; Date.now().toString() is none of them
UsedIds(d) ==
    DOMAIN d.habits \cup
    UNION { DOMAIN Val(d.days[k].habits) : k \in { x \in DOMAIN d.days : IsSet(d.days[x].habits) } }

\* this.data.habits.filter(h => h.id !== id)
WithoutHabitsUpTo(habits, id) == [ h \in { x \in DOMAIN habits : x > id } |-> habits[h] ]

WithoutHabit(habits, id) == [ h \in DOMAIN habits \ {id} |-> habits[h] ]

\* the day records of a backup file: one date, its record without a habits
\* map or with one flag; {} is a file without a days object
ImportedRecords ==
    { [ habits |-> None ] }
    \cup { [ habits |-> Some(id :> f) ] : id \in HabitIds, f \in { "true", "false" } }

Imports ==
    { None } \cup { Some(toISODate(t) :> r) : t \in StoreDays, r \in ImportedRecords }

InitStore ==
    /\ data = EmptyData
    /\ form = None /\ answer = None /\ AppIdle
    /\ habit = NoHabit /\ days = << >> /\ lastOp = "none"
    /\ event = [ date |-> <<2024, 1, 1>>, recurrence |-> None ]
    /\ candidate = None /\ result = "none"

\* what the DataManager's operations on the aggregate leave alone; the
\* enhancements, the database and the saves in flight are framed by each
\* specification
StoreFrame == UNCHANGED <<form, recVars, habit, days, sync, events>>

\* this.data = { habits: [], ..., days: {}, ... }
clearAllData ==
    /\ data' = EmptyData
    /\ answer' = None
    /\ lastOp' = "clearAllData"
    /\ StoreFrame

StoreAddHabit ==
    /\ HabitIds \ UsedIds(data) # {}
    /\ LET id == CHOOSE x \in HabitIds \ UsedIds(data) :
                      \A y \in HabitIds \ UsedIds(data) : x <= y
       IN  data' = [ data EXCEPT !.habits =
                       [ h \in DOMAIN data.habits \cup {id} |->
                           IF h = id THEN [ archived |-> FALSE, createdAt |-> Today ]
                           ELSE data.habits[h] ] ]
    /\ answer' = None
    /\ lastOp' = "addHabit"
    /\ StoreFrame

archiveHabit(id) ==
    /\ data' = [ data EXCEPT !.habits[id].archived = TRUE ]
    /\ answer' = None
    /\ lastOp' = "archiveHabit"
    /\ StoreFrame

unarchiveHabit(id) ==
    /\ data' = [ data EXCEPT !.habits[id].archived = FALSE ]
    /\ answer' = None
    /\ lastOp' = "unarchiveHabit"
    /\ StoreFrame

StoreDeleteHabit(id) ==
    /\ data' = [ data EXCEPT !.habits = WithoutHabit(data.habits, id) ]
    /\ answer' = None
    /\ lastOp' = "deleteHabit"
    /\ StoreFrame

\* setHabitComplete on a plain habit; dayData.habits[habitId] = completed
\* throws when the record has no habits map
StoreSetHabitComplete(date, habitId, completed) ==
    LET dateStr == toISODate(date)
        created == getDayData(data.days, dateStr)
    IN  /\ IF IsSet(created[dateStr].habits)
           THEN /\ data' = [ data EXCEPT !.days =
                               [ created EXCEPT ![dateStr].habits =
                                   Some([ h \in DOMAIN Val(@) \cup {habitId} |->
                                            IF h = habitId THEN Bool(completed) ELSE Val(@)[h] ]) ] ]
                /\ answer' = None
           ELSE /\ data' = [ data EXCEPT !.days = created ]
                /\ answer' = Answer("setHabitComplete", "TypeError")
        /\ lastOp' = IF completed THEN "setHabitComplete(true)" ELSE "setHabitComplete(false)"
        /\ StoreFrame

importData(importedDays) ==
    /\ IF IsSet(importedDays)
       THEN /\ data' = [ data EXCEPT !.days =
                           [ k \in DOMAIN data.days \cup DOMAIN Val(importedDays) |->
                               IF k \in DOMAIN Val(importedDays)
                               THEN Val(importedDays)[k] ELSE data.days[k] ] ]
            /\ answer' = Answer("importData", "success")
       ELSE /\ UNCHANGED data
            /\ answer' = Answer("importData", "Invalid data format")
    /\ lastOp' = "importData"
    /\ StoreFrame

getDayStatus(date) ==
    /\ data' = IF date > Today THEN data
               ELSE [ data EXCEPT !.days = getDayData(data.days, toISODate(date)) ]
    /\ answer' = Some([ op |-> "getDayStatus", date |-> date, value |-> DayStatus(data, date) ])
    /\ lastOp' = "getDayStatus"
    /\ StoreFrame

\* the aggregate alone: no enhancements, no database, no save in flight
StoreOnly == UNCHANGED <<enh, db, inFlight>>

NextStore ==
    \/ StoreAddHabit /\ StoreOnly
    \/ \E id \in DOMAIN data.habits :
            \/ archiveHabit(id) /\ StoreOnly
            \/ unarchiveHabit(id) /\ StoreOnly
            \/ StoreDeleteHabit(id) /\ StoreOnly
            \/ \E date \in StoreDays, completed \in BOOLEAN :
                    StoreSetHabitComplete(date, id, completed) /\ StoreOnly
            \/ CurrentStreakQuery(id)
            \/ LongestStreakQuery(id)
    \/ \E importedDays \in Imports : importData(importedDays) /\ StoreOnly
    \/ \E date \in StoreDays : getDayStatus(date) /\ StoreOnly
    \/ clearAllData /\ StoreOnly

SpecStore == InitStore /\ [][NextStore]_vars

----------------------------------------------------------------------------
(* Claims about build-up habits, checked under SpecHabit *)

\* C9 (as claimed): every build-up habit has startValue <= currentValue <= goalValue.
C9_ValueWithinBounds ==
    IsBuildUp(habit) =>
        /\ Config(habit).startValue <= Config(habit).currentValue
        /\ Config(habit).currentValue <= Config(habit).goalValue

\* C9 (as claimed, second half): no operation decreases currentValue.
C9_ValueNeverDecreases ==
    [][ (IsBuildUp(habit) /\ IsBuildUp(habit')) =>
            Config(habit').currentValue >= Config(habit).currentValue ]_vars

\* the spec's fixture: {currentValue: 10, currentStreak: 2, daysForIncrement: 3,
\* incrementValue: 5, goalValue: 20} completes to {currentValue: 15, currentStreak: 0}
C10_Example ==
    LET before == [ startValue |-> 5, goalValue |-> 20, incrementValue |-> 5,
                    daysForIncrement |-> 3, currentValue |-> 10, currentStreak |-> 2 ]
    IN  CompletedConfig(before) = [ before EXCEPT !.currentValue = 15, !.currentStreak = 0 ]

\* C10: a true completion of a build-up habit adds 1 to currentStreak; when the
\* new streak reaches daysForIncrement, currentValue becomes
\* min(currentValue + incrementValue, goalValue) and currentStreak becomes 0.
C10_CompletionStep ==
    [][ (lastOp' = "setHabitComplete(true)" /\ IsBuildUp(habit)) =>
            LET c == Config(habit)
                n == Config(habit')
            IN  /\ IsBuildUp(habit')
                /\ IF c.currentStreak + 1 >= c.daysForIncrement
                   THEN /\ n.currentValue = Min(c.currentValue + c.incrementValue, c.goalValue)
                        /\ n.currentStreak = 0
                   ELSE /\ n.currentValue = c.currentValue
                        /\ n.currentStreak = c.currentStreak + 1
                /\ n.startValue = c.startValue /\ n.goalValue = c.goalValue
                /\ n.incrementValue = c.incrementValue
                /\ n.daysForIncrement = c.daysForIncrement
                /\ C10_Example ]_vars

\* a completion has just stepped the value up to the goal and reset the streak
C10_Witness ==
    /\ lastOp = "setHabitComplete(true)" /\ IsBuildUp(habit)
    /\ Config(habit).daysForIncrement = 2 /\ Config(habit).currentStreak = 0
    /\ Config(habit).incrementValue = 2
    /\ Config(habit).currentValue = Config(habit).goalValue
    /\ Config(habit).currentValue = Config(habit).startValue + 1

\* the spec's fixture: un-completing {currentValue: 15, currentStreak: 0} leaves it as it is
C11_Example ==
    LET before == [ startValue |-> 5, goalValue |-> 20, incrementValue |-> 5,
                    daysForIncrement |-> 3, currentValue |-> 10, currentStreak |-> 2 ]
    IN  UncompletedConfig(CompletedConfig(before)) =
            [ before EXCEPT !.currentValue = 15, !.currentStreak = 0 ]

\* C11: an un-completion (completed = false) of a build-up habit resets
\* currentStreak to 0 and leaves currentValue, startValue, goalValue,
\* incrementValue and daysForIncrement as they were, also right after a
\* completion that stepped the value up.
C11_UncompletionStep ==
    [][ (lastOp' = "setHabitComplete(false)" /\ IsBuildUp(habit)) =>
            LET c == Config(habit)
                n == Config(habit')
            IN  /\ IsBuildUp(habit')
                /\ n.currentStreak = 0
                /\ n.currentValue = c.currentValue
                /\ n.startValue = c.startValue /\ n.goalValue = c.goalValue
                /\ n.incrementValue = c.incrementValue
                /\ n.daysForIncrement = c.daysForIncrement
                /\ C11_Example ]_vars

\* every completion steps the value up (daysForIncrement = 1); one date was
\* completed, another was then un-completed, and the stepped-up value is kept
C11_Witness ==
    /\ lastOp = "setHabitComplete(false)" /\ IsBuildUp(habit)
    /\ Config(habit).daysForIncrement = 1 /\ Config(habit).currentStreak = 0
    /\ Config(habit).currentValue = Config(habit).startValue + Config(habit).incrementValue
    /\ DOMAIN days = HabitDates
    /\ days[1] /\ ~days[2]

----------------------------------------------------------------------------
(* Claims about the habit form, checked under SpecForm *)

Submitted == IsSet(form)

\* the claim's invalid configurations: a field that is not a number or is
\* <= 0, or goalValue <= startValue
C12_Invalid(f) ==
    \/ \E x \in { f.startValue, f.goalValue, f.incrementValue, f.daysForIncrement } :
            isNaN(x) \/ Val(x) <= 0
    \/ (~isNaN(f.goalValue) /\ ~isNaN(f.startValue) /\ Val(f.goalValue) <= Val(f.startValue))

\* C12: submitting a build-up configuration in which a field is not a number
\* or is <= 0, or in which goalValue <= startValue, is rejected: no habit is
\* added or updated, the stored habit stays as it was.
C12_InvalidConfigRejected ==
    [][ (~Submitted /\ Submitted' /\ Val(form').isBuildUpHabit /\ C12_Invalid(Val(form').fields)) =>
            (habit' = habit /\ lastOp' = "habitFormRejected") ]_vars

\* an edit of an existing build-up habit with a name, positive numbers and
\* goalValue = startValue was rejected
C12_Witness ==
    /\ Submitted /\ lastOp = "habitFormRejected" /\ IsBuildUp(habit)
    /\ Val(form).name /\ Val(form).isBuildUpHabit
    /\ \A x \in { Val(form).fields.startValue, Val(form).fields.goalValue,
                  Val(form).fields.incrementValue, Val(form).fields.daysForIncrement } :
            ~isNaN(x) /\ Val(x) > 0
    /\ Val(form).fields.goalValue = Val(form).fields.startValue

----------------------------------------------------------------------------
(* Claims about the streak calculator, checked under SpecStreak and         *)
(* SpecMilestone.  Days are counted here as whole numbers, t - 1 being the   *)
(* day before t, independently of the calculator's date arithmetic.          *)

Asked(op) == IsSet(answer) /\ Val(answer).op = op

Returned == Val(answer).value

StreakHabit == CHOOSE h \in DOMAIN data.habits : TRUE

Created == data.habits[StreakHabit].createdAt

\* days[date].habits[habitId] is exactly true on day t
DoneOn(t) ==
    /\ Civil[t] \in DOMAIN data.days
    /\ IsSet(data.days[Civil[t]].habits)
    /\ StreakHabit \in DOMAIN Val(data.days[Civil[t]].habits)
    /\ Val(data.days[Civil[t]].habits)[StreakHabit] = "true"

\* a..b is a maximal run of completed days between the creation day and today
IsRun(a, b) ==
    /\ Created <= a /\ a <= b /\ b <= Today
    /\ \A t \in a..b : DoneOn(t)
    /\ (a = Created \/ ~DoneOn(a - 1))
    /\ (b = Today \/ ~DoneOn(b + 1))

Runs == { r \in StreakDays \X StreakDays : IsRun(r[1], r[2]) }

RunLength(r) == r[2] - r[1] + 1

\* C13: calculateCurrentStreak is the length of the maximal run of
\* consecutive days ending at today whose flag is exactly true; it is 0 when
\* today has no true completion, whatever came before, and 0 for empty data.
C13_CurrentStreakIsRunAtToday ==
    Asked("calculateCurrentStreak") =>
        /\ Returned \in 0..(StreakSpan + 1)
        /\ \A k \in 0..(Returned - 1) : DoneOn(Today - k)
        /\ ~DoneOn(Today - Returned)
        /\ (~DoneOn(Today) => Returned = 0)
        /\ calculateCurrentStreak(StreakHabit, << >>) = 0

\* a streak of three days across the end of February, stopped by a day whose
\* flag is 1, not true
C13_Witness ==
    /\ Asked("calculateCurrentStreak") /\ Returned = 3
    /\ Civil[Today - 2] = <<2024, 2, 29>>
    /\ Civil[Today - 3] \in DOMAIN data.days
    /\ data.days[Civil[Today - 3]].habits = Some(StreakHabit :> "1")

\* the spec's fixture: Jan 1-3 and Jan 5-8 completed, habit created on Jan 1,
\* today Jan 8: the longest streak has count 4, from 2024-01-05 to 2024-01-08
C14_Example ==
    LET daysData == [ dateStr \in { <<2024, 1, d>> : d \in {1, 2, 3, 5, 6, 7, 8} }
                        |-> [ habits |-> Some(1 :> "true") ] ]
    IN  LongestStreakAt(1, daysData, ParseDate(<<2024, 1, 1>>), ParseDate(<<2024, 1, 8>>))
            = [ count |-> 4, startDate |-> Some(<<2024, 1, 5>>), endDate |-> Some(<<2024, 1, 8>>) ]

\* C14: calculateLongestStreak returns count, start and end of the longest
\* run of completed days between the creation day and today inclusive, the
\* run open at today included, the earliest run on a tie, and
\* {count: 0, startDate: null, endDate: null} when there is no run.
C14_LongestStreak ==
    Asked("calculateLongestStreak") =>
        /\ IF Runs = {}
           THEN Returned = [ count |-> 0, startDate |-> None, endDate |-> None ]
           ELSE LET best == CHOOSE x \in Runs : \A y \in Runs :
                                \/ RunLength(y) < RunLength(x)
                                \/ (RunLength(y) = RunLength(x) /\ y[1] >= x[1])
                IN  Returned = [ count |-> RunLength(best),
                                 startDate |-> Some(Civil[best[1]]),
                                 endDate |-> Some(Civil[best[2]]) ]
        /\ C14_Example

\* two runs of one day each, the second open at today: the first one wins
C14_Witness ==
    /\ Asked("calculateLongestStreak")
    /\ Returned.count = 1 /\ Returned.endDate = Some(Civil[Today - 2])
    /\ DoneOn(Today) /\ ~DoneOn(Today - 1)

\* C15: getAllStreaks returns, in chronological order, exactly the maximal
\* runs between the creation day and today: disjoint and non-adjacent, every
\* completed day of the range in exactly one run, each count the number of
\* days from startDate to endDate, the largest count that of
\* calculateLongestStreak.
C15_AllStreaks ==
    Asked("getAllStreaks") =>
        LET n        == Len(Returned)
            first(i) == ParseDate(Returned[i].startDate)
            last(i)  == ParseDate(Returned[i].endDate)
            longest  == calculateLongestStreak(StreakHabit, data.days, Created).count
        IN  /\ { <<first(i), last(i)>> : i \in 1..n } = Runs
            /\ \A i \in 1..n : Returned[i].count = last(i) - first(i) + 1
            /\ \A i \in 1..(n - 1) : last(i) + 1 < first(i + 1)
            /\ \A t \in Created..Today :
                    DoneOn(t) => Cardinality({ i \in 1..n : first(i) <= t /\ t <= last(i) }) = 1
            /\ \A i \in 1..n : Returned[i].count <= longest
            /\ IF n = 0 THEN longest = 0 ELSE \E i \in 1..n : Returned[i].count = longest

\* two runs, the first one cut at the creation day by a completion before it
C15_Witness ==
    /\ Asked("getAllStreaks") /\ Len(Returned) = 2
    /\ Returned[1].startDate = Civil[Created] /\ DoneOn(Created - 1)
    /\ Returned[2].endDate = Civil[Today]

\* C16: checkMilestone(previous, current) is the smallest m of 7, 30, 100, 365
\* with previous < m <= current, null when there is none; (6, 7) gives 7,
\* (7, 8) gives null, (29, 31) gives 30.
C16_SmallestCrossedMilestone ==
    Asked("checkMilestone") =>
        LET crossed == { m \in {7, 30, 100, 365} :
                           Val(answer).previousStreak < m /\ m <= Val(answer).currentStreak }
        IN  /\ IF crossed = {} THEN Returned = None
               ELSE Returned = Some(CHOOSE m \in crossed : \A x \in crossed : m <= x)
            /\ checkMilestone(6, 7) = Some(7)
            /\ checkMilestone(7, 8) = None
            /\ checkMilestone(29, 31) = Some(30)

\* a jump from 6 to 100 crosses three thresholds and reports 7
C16_Witness ==
    /\ Asked("checkMilestone")
    /\ Val(answer).previousStreak = 6 /\ Val(answer).currentStreak = 100
    /\ Returned = Some(7)

----------------------------------------------------------------------------
(* Claims about the day status and the stored aggregate, checked under      *)
(* SpecStore *)

StatusAsked == Asked("getDayStatus")

ActiveHabits == { h \in DOMAIN data.habits : ~data.habits[h].archived }

\* the day's record holds a true flag for habit h
FlaggedOn(h, date) ==
    /\ Civil[date] \in DOMAIN data.days
    /\ IsSet(data.days[Civil[date]].habits)
    /\ h \in DOMAIN Val(data.days[Civil[date]].habits)
    /\ Val(data.days[Civil[date]].habits)[h] = "true"

ExpectedStatus(date) ==
    LET completed == { h \in ActiveHabits : FlaggedOn(h, date) }
    IN  IF date > Today \/ ActiveHabits = {} THEN "gray"
        ELSE IF completed = {} THEN "red"
        ELSE IF completed = ActiveHabits THEN "green"
        ELSE "yellow"

\* C17 (as claimed): getDayStatus returns gray for a date after today and
\* when no habit is non-archived; otherwise, over the non-archived habits
\* only, red if none is completed on the date, green if all are, yellow
\* otherwise.
C17_DayStatus ==
    StatusAsked => Returned = ExpectedStatus(Val(answer).date)

\* C18 (as claimed): getDayStatus leaves data.days and the rest of the
\* aggregate unchanged.
C18_DayStatusPure ==
    [][ lastOp' = "getDayStatus" => data' = data ]_vars

\* C19: archiveHabit, unarchiveHabit and deleteHabit leave data.days
\* unchanged; deleteHabit removes the definition with the given id and no
\* other, archiveHabit and unarchiveHabit change one habit's archived flag.
C19_DaysKept ==
    [][ (lastOp' \in { "archiveHabit", "unarchiveHabit", "deleteHabit" }) =>
            /\ data'.days = data.days
            /\ \E id \in DOMAIN data.habits :
                    IF lastOp' = "deleteHabit"
                    THEN /\ DOMAIN data'.habits = DOMAIN data.habits \ {id}
                         /\ \A h \in DOMAIN data'.habits : data'.habits[h] = data.habits[h]
                    ELSE /\ DOMAIN data'.habits = DOMAIN data.habits
                         /\ \A h \in DOMAIN data.habits \ {id} : data'.habits[h] = data.habits[h]
                         /\ data'.habits[id] =
                                [ data.habits[id] EXCEPT !.archived = (lastOp' = "archiveHabit") ] ]_vars

\* habit 2 has just been deleted, habit 1 is still defined, and a day record
\* still holds habit 2's true flag
C19_Witness ==
    /\ lastOp = "deleteHabit"
    /\ DOMAIN data.habits = {1}
    /\ FlaggedOn(2, Today)

\* C20 (as claimed): on every aggregate reached through addHabit,
\* setHabitComplete, importData and deleteHabit, getDayStatus,
\* calculateCurrentStreak and calculateLongestStreak return a value (they do
\* not throw), missing data counting as not completed.
C20_MissingDataNotAnError ==
    /\ StatusAsked => Returned \in { "gray", "red", "green", "yellow" }
    /\ StatusAsked => Returned = ExpectedStatus(Val(answer).date)
    /\ Asked("calculateCurrentStreak") =>
            /\ Returned \in Nat
            /\ (\A h \in DOMAIN data.habits : ~FlaggedOn(h, Today)) => Returned = 0
    /\ Asked("calculateLongestStreak") =>
            /\ Returned.count \in Nat
            /\ (\A h \in DOMAIN data.habits : ~FlaggedOn(h, Today)) => Returned.count = 0

----------------------------------------------------------------------------
(* C25: isStreakAtRisk answers true exactly when the habit is not completed  *)
(* today but was completed on the day before today, and false otherwise.     *)

C25_AtRiskIffYesterdayOnly ==
    Asked("isStreakAtRisk") =>
        (Returned <=> (/\ ~DoneOn(Today) /\ DoneOn(Today - 1)))

----------------------------------------------------------------------------
(* C30: getStreakStatus answers longest >= current, and isActive exactly     *)
(* when current > 0, whatever day records the aggregate holds.               *)

C30_LongestAtLeastCurrent ==
    Asked("getStreakStatus") =>
        /\ Returned.longest >= Returned.current
        /\ Returned.isActive <=> (Returned.current > 0)

----------------------------------------------------------------------------
(* CloudStorageManager.syncData.  A call runs in steps separated by its      *)
(* awaits: the checks up to provider.load(), the continuation after the      *)
(* load, and the continuation after provider.save().  The provider's load    *)
(* and save may each resolve or reject.  Data are told apart by a content    *)
(* number; lastModified may be missing.                                      *)

MaxCalls == 2
MaxStamp == 2

CallIds == 1..MaxCalls

Stamps == { None } \cup { Some(t) : t \in 0..MaxStamp }

\* what the cloud may hold before any call: nothing (load answers null), or a file
CloudFiles == { None } \cup { Some([ content |-> 0, lastModified |-> t ]) : t \in Stamps }

\* x.lastModified || 0
Timestamp(x) == IF IsSet(x.lastModified) THEN Val(x.lastModified) ELSE 0

LocalIsNewerOrSame(localTimestamp, cloudTimestamp) == localTimestamp >= cloudTimestamp

\* localTimestamp > cloudTimestamp
LocalIsNewer(localTimestamp, cloudTimestamp) == localTimestamp > cloudTimestamp

\* the branch that uploads: !cloudData, or the local data is newer
Uploads(localData, cloudData) ==
    IF cloudData = None THEN TRUE
    ELSE LocalIsNewer(Timestamp(localData), Timestamp(Val(cloudData)))

GuardIgnored(s) == FALSE

\* if (this.syncInProgress)
GuardTaken(s) == s.syncInProgress

IdleCall ==
    [ phase |-> "idle", local |-> None, loaded |-> None, loads |-> 0, saves |-> 0,
      saved |-> None, value |-> None, error |-> "" ]

InitSync ==
    /\ sync \in { [ configured |-> c, syncInProgress |-> FALSE, cloud |-> f,
                    calls |-> [ i \in CallIds |-> IdleCall ] ] :
                  c \in BOOLEAN, f \in CloudFiles }
    /\ enh = None /\ db = None /\ inFlight = 0 /\ events = << >>
    /\ form = None /\ data = EmptyData /\ answer = None
    /\ habit = NoHabit /\ days = << >> /\ lastOp = "none"
    /\ event = [ date |-> <<2024, 1, 1>>, recurrence |-> None ]
    /\ candidate = None /\ result = "none"

SyncFrame == UNCHANGED <<recVars, habitVars, storeVars, enh, db, inFlight, events>>

\* the call up to its first await
syncData(c, localData) ==
    /\ sync.calls[c].phase = "idle"
    /\ LET call == [ sync.calls[c] EXCEPT !.local = Some(localData) ]
       IN  sync' =
             IF ~sync.configured
             THEN [ sync EXCEPT !.calls[c] =
                      [ call EXCEPT !.phase = "rejected",
                                    !.error = "Cloud storage not configured" ] ]
             ELSE IF GuardTaken(sync)
             THEN [ sync EXCEPT !.calls[c] =
                      [ call EXCEPT !.phase = "rejected",
                                    !.error = "Sync already in progress" ] ]
             ELSE [ sync EXCEPT !.syncInProgress = TRUE,
                                !.calls[c] = [ call EXCEPT !.phase = "loading", !.loads = 1 ] ]
    /\ SyncFrame

\* provider.load() resolves with what the cloud holds; the call goes on to
\* its next await or to its return, and the finally block on a return
loadResolves(c) ==
    /\ sync.calls[c].phase = "loading"
    /\ LET call      == sync.calls[c]
           localData == Val(call.local)
           cloudData == sync.cloud
       IN  sync' =
             IF Uploads(localData, cloudData)
             THEN [ sync EXCEPT !.calls[c] =
                      [ call EXCEPT !.phase = "saving", !.loaded = Some(cloudData),
                                    !.saves = call.saves + 1, !.saved = Some(localData) ] ]
             ELSE [ sync EXCEPT !.syncInProgress = FALSE,
                                !.calls[c] =
                      [ call EXCEPT !.phase = "resolved", !.loaded = Some(cloudData),
                                    !.value = Some([ action |-> "downloaded",
                                                     data |-> Val(cloudData) ]) ] ]
    /\ SyncFrame

\* provider.load() rejects: the error leaves through the finally block
loadRejects(c) ==
    /\ sync.calls[c].phase = "loading"
    /\ sync' = [ sync EXCEPT !.syncInProgress = FALSE,
                             !.calls[c] = [ @ EXCEPT !.phase = "rejected",
                                                     !.error = "load failed" ] ]
    /\ SyncFrame

\* provider.save(localData) resolves: the cloud holds the local data
saveResolves(c) ==
    /\ sync.calls[c].phase = "saving"
    /\ sync' = [ sync EXCEPT !.syncInProgress = FALSE,
                             !.cloud = sync.calls[c].saved,
                             !.calls[c] =
                                [ @ EXCEPT !.phase = "resolved",
                                           !.value = Some([ action |-> "uploaded",
                                                            data |-> Val(sync.calls[c].local) ]) ] ]
    /\ SyncFrame

\* provider.save(localData) rejects
saveRejects(c) ==
    /\ sync.calls[c].phase = "saving"
    /\ sync' = [ sync EXCEPT !.syncInProgress = FALSE,
                             !.calls[c] = [ @ EXCEPT !.phase = "rejected",
                                                     !.error = "save failed" ] ]
    /\ SyncFrame

NextSync ==
    \E c \in CallIds :
        \/ \E t \in Stamps : syncData(c, [ content |-> c, lastModified |-> t ])
        \/ loadResolves(c)
        \/ loadRejects(c)
        \/ saveResolves(c)
        \/ saveRejects(c)

SpecSync == InitSync /\ [][NextSync]_vars

----------------------------------------------------------------------------
(* C23: syncData is mutually exclusive: at most one call is past the         *)
(* syncInProgress guard at any time; a call started while another is in      *)
(* flight rejects with 'Sync already in progress' without calling the        *)
(* provider and without clearing the flag; and the flag is false again once  *)
(* the in-flight call settles, whether load or save resolved or rejected.    *)

InFlightCalls == { c \in CallIds : sync.calls[c].phase \in { "loading", "saving" } }

C23_StartedWhileInFlight(c) ==
    /\ sync.calls[c].phase = "idle" /\ sync'.calls[c].phase # "idle"
    /\ InFlightCalls # {}

C23_MutualExclusion ==
    /\ [](/\ Cardinality(InFlightCalls) <= 1
          /\ sync.syncInProgress <=> (InFlightCalls # {}))
    /\ [][\A c \in CallIds :
            C23_StartedWhileInFlight(c) =>
                /\ sync'.calls[c].phase = "rejected"
                /\ sync'.calls[c].error = "Sync already in progress"
                /\ sync'.calls[c].loads = 0 /\ sync'.calls[c].saves = 0
                /\ sync'.syncInProgress /\ sync'.cloud = sync.cloud
                /\ \A o \in CallIds \ {c} : sync'.calls[o] = sync.calls[o]]_vars

\* one call waits for its save while the other has been turned away
C23_Witness ==
    \E c, o \in CallIds :
        /\ sync.calls[c].phase = "saving"
        /\ sync.calls[o].error = "Sync already in progress"

----------------------------------------------------------------------------
(* C24: syncData resolves last-write-wins by lastModified, a missing field   *)
(* counting as 0: once the load has answered, provider.save has been called  *)
(* exactly once, with the local data, exactly when the cloud had no data or  *)
(* the local lastModified is greater, and not at all otherwise (a tie        *)
(* included); the call returns 'uploaded' with the local data in the first   *)
(* case and 'downloaded' with the cloud's data in the second.                *)

C24_LocalWins(call) ==
    \/ Val(call.loaded) = None
    \/ Timestamp(Val(call.local)) > Timestamp(Val(Val(call.loaded)))

C24_LastWriteWins ==
    \A c \in CallIds :
        LET call == sync.calls[c]
        IN  IsSet(call.loaded) =>
              /\ call.saves = IF C24_LocalWins(call) THEN 1 ELSE 0
              /\ call.saves = 1 => call.saved = call.local
              /\ call.phase = "resolved" =>
                    call.value = IF C24_LocalWins(call)
                                 THEN Some([ action |-> "uploaded", data |-> Val(call.local) ])
                                 ELSE Some([ action |-> "downloaded",
                                             data |-> Val(Val(call.loaded)) ])

\* a tie between a local copy without lastModified and a cloud copy stamped 0
C24_Witness ==
    \E c \in CallIds :
        /\ sync.calls[c].phase = "resolved"
        /\ sync.calls[c].local = Some([ content |-> c, lastModified |-> None ])
        /\ sync.calls[c].loaded = Some(Some([ content |-> 0, lastModified |-> Some(0) ]))
        /\ Val(sync.calls[c].value).action = "downloaded"

----------------------------------------------------------------------------
(* The calendar's events: DataManager.updateEvent on a stored series and     *)
(* DataManager.getEventsForDate.  data.events starts with one recurring      *)
(* event; an event carries its id, name, date, recurrence and, when it is an *)
(* exception, parentEventId.                                                 *)

MaxEvents == 3
MaxEventDays == 2

EventDates == { Civil[t] : t \in Today..(Today + MaxEventDays) }

SeriesEvents ==
    { [ id |-> 1, name |-> "series", date |-> a, recurrence |-> Some(r),
        parentEventId |-> None ] : a \in Anchors, r \in WellFormedRules(NoEnd) }

InitEvents ==
    /\ events \in { <<e>> : e \in SeriesEvents }
    /\ enh = None /\ db = None /\ sync = None /\ inFlight = 0
    /\ form = None /\ data = EmptyData /\ answer = None
    /\ habit = NoHabit /\ days = << >> /\ lastOp = "none"
    /\ event = [ date |-> <<2024, 1, 1>>, recurrence |-> None ]
    /\ candidate = None /\ result = "none"

EventsFrame == UNCHANGED <<recVars, habit, days, form, data, enh, db, sync, inFlight>>

\* this.data.events.findIndex(e => e.id === id), 0 when there is none
FindEventIndex(evs, id) ==
    IF \E i \in 1..Len(evs) : evs[i].id = id
    THEN CHOOSE i \in 1..Len(evs) : evs[i].id = id /\ \A j \in 1..(i - 1) : evs[j].id # id
    ELSE 0

\* Date.now().toString(): an id no stored event has
FreshEventId(evs) == Len(evs) + 1

UpdatedEvents(evs, id, name, date, recurrence, updateAll) ==
    LET eventIndex == FindEventIndex(evs, id)
    IN  IF eventIndex = 0 THEN evs
        ELSE IF updateAll
        THEN [ evs EXCEPT ![eventIndex] =
                 [ @ EXCEPT !.name = name, !.date = date, !.recurrence = recurrence ] ]
        ELSE Append(evs, [ id |-> FreshEventId(evs), name |-> name, date |-> date,
                           recurrence |-> None, parentEventId |-> Some(id) ])

updateEvent(id, name, date, recurrence, updateAll) ==
    /\ Len(events) < MaxEvents
    /\ events' = UpdatedEvents(events, id, name, date, recurrence, updateAll)
    /\ answer' = Some([ op |-> "updateEvent", id |-> id, date |-> date,
                        updateAll |-> updateAll,
                        value |-> IF FindEventIndex(events, id) = 0 THEN << >>
                                  ELSE <<events'[FindEventIndex(events, id)]>>,
                        hangs |-> FALSE ])
    /\ lastOp' = "updateEvent"
    /\ EventsFrame

\* the forEach of getEventsForDate over the first n stored events
RECURSIVE EventsOn(_, _, _)
EventsOn(evs, n, dateStr) ==
    IF n = 0 THEN << >>
    ELSE LET ev == evs[n]
         IN  IF IsSet(ev.recurrence)
             THEN IF eventOccursOnDate(ev, dateStr) = "true"
                  THEN Append(EventsOn(evs, n - 1, dateStr),
                              [ id |-> ev.id, name |-> ev.name, date |-> ev.date,
                                parentEventId |-> ev.parentEventId, isRecurring |-> TRUE ])
                  ELSE EventsOn(evs, n - 1, dateStr)
             ELSE IF ev.date = dateStr
                  THEN Append(EventsOn(evs, n - 1, dateStr),
                              [ id |-> ev.id, name |-> ev.name, date |-> ev.date,
                                parentEventId |-> ev.parentEventId, isRecurring |-> FALSE ])
                  ELSE EventsOn(evs, n - 1, dateStr)

\* an occurrence check that does not return keeps the whole call from returning
EventsHang(evs, dateStr) ==
    \E i \in 1..Len(evs) :
        IF IsSet(evs[i].recurrence) THEN eventOccursOnDate(evs[i], dateStr) = "diverges"
        ELSE FALSE

getEventsForDate(date) ==
    /\ answer' = Some([ op |-> "getEventsForDate", id |-> 0, date |-> toISODate(date),
                        updateAll |-> FALSE,
                        value |-> IF EventsHang(events, toISODate(date)) THEN << >>
                                  ELSE EventsOn(events, Len(events), toISODate(date)),
                        hangs |-> EventsHang(events, toISODate(date)) ])
    /\ lastOp' = "getEventsForDate"
    /\ UNCHANGED events
    /\ EventsFrame

NextEvents ==
    \/ \E id \in 1..MaxEvents, date \in EventDates, updateAll \in BOOLEAN,
          keepsRule \in BOOLEAN :
            updateEvent(id, "edited", date,
                        IF keepsRule /\ FindEventIndex(events, id) # 0
                        THEN events[FindEventIndex(events, id)].recurrence ELSE None,
                        updateAll)
    \/ \E t \in Today..(Today + MaxEventDays) : getEventsForDate(t)

SpecEvents == InitEvents /\ [][NextEvents]_vars

----------------------------------------------------------------------------
(* C29: updateEvent(id, ..., date D, ..., updateAll = false) on a recurring  *)
(* series leaves the series event unchanged and adds exactly one new event,  *)
(* without recurrence, with parentEventId = id and date D; and               *)
(* getEventsForDate(D) called next returns that exception and not the        *)
(* series occurrence on D.                                                   *)

\* the state is the one an exception-making updateEvent on a series has left
C29_ExceptionJustMade ==
    /\ IsSet(answer) /\ Val(answer).op = "updateEvent" /\ ~Val(answer).updateAll
    /\ Val(answer).value # << >>
    /\ IsSet(Val(answer).value[1].recurrence)

C29_ExceptionReplacesOccurrence ==
    [][/\ (C29_ExceptionJustMade' /\ lastOp' = "updateEvent" /\ events' # events) =>
            /\ Len(events') = Len(events) + 1
            /\ \A i \in 1..Len(events) : events'[i] = events[i]
            /\ events'[Len(events')].recurrence = None
            /\ events'[Len(events')].parentEventId = Some(Val(answer').id)
            /\ events'[Len(events')].date = Val(answer').date
       /\ (/\ C29_ExceptionJustMade
           /\ lastOp' = "getEventsForDate"
           /\ Val(answer').date = Val(answer).date
           /\ ~Val(answer').hangs) =>
            LET returned == Val(answer').value
                made     == events[Len(events)]
            IN  /\ \E i \in 1..Len(returned) :
                      /\ returned[i].id = made.id /\ ~returned[i].isRecurring
                /\ \A i \in 1..Len(returned) : returned[i].id # Val(answer).id
      ]_vars

----------------------------------------------------------------------------
(* The Today view's habit items.  A build-up habit has been created through  *)
(* the form; each click on its item toggles the completion of the date on    *)
(* show, and setHabitComplete(date, true) may also be called on a date that  *)
(* is already complete.                                                      *)

ClickHabits == { h \in FormHabits : IsBuildUp(h) }

InitClicks ==
    /\ habit \in ClickHabits
    /\ days = << >>
    /\ lastOp = "none"
    /\ event = [ date |-> <<2024, 1, 1>>, recurrence |-> None ]
    /\ candidate = None /\ result = "none"
    /\ form = None /\ data = EmptyData /\ answer = None /\ AppIdle

\* const completed = !dayData.habits[habitId]
ClickCompletes(date) == IF date \in DOMAIN days THEN ~days[date] ELSE TRUE

\* the habit item's click listener with currentDate = date
habitItemClick(date) == setHabitComplete(date, ClickCompletes(date))

NextClicks ==
    \/ \E date \in HabitDates : habitItemClick(date)
    \/ \E date \in HabitDates : setHabitComplete(date, TRUE)

SpecClicks == InitClicks /\ [][NextClicks]_vars

----------------------------------------------------------------------------
(* C28: the number of step-ups of currentValue never exceeds                 *)
(* floor(D / daysForIncrement), D being the number of distinct dates on      *)
(* which the habit has been marked complete.                                 *)

\* every date with a flag has been marked complete at least once: a date's
\* first flag comes from a click on a date without one or from a call with true
C28_DatesMarkedComplete == Cardinality(DOMAIN days)

\* the increases of currentValue since startValue, each of incrementValue
\* except a last one cut at the goal
C28_StepUps ==
    LET c == Config(habit)
    IN  (c.currentValue - c.startValue + c.incrementValue - 1) \div c.incrementValue

C28_StepUpsBoundedByDates ==
    C28_StepUps <= C28_DatesMarkedComplete \div Config(habit).daysForIncrement

----------------------------------------------------------------------------
(* Persistence.  db holds what the DataManager has stored: whether the       *)
(* IndexedDB database is open (useIndexedDB), the records of its habits and  *)
(* days object stores by key, and the localStorage item trackDeezData.       *)
(* A saveData call in IndexedDB mode runs in two steps: up to its first      *)
(* await it has put the habits; its remaining puts happen when it is         *)
(* resumed, and it ends in its catch block because the events store does     *)
(* not exist.  Every mutation is followed by its save, as in the             *)
(* DataManager's methods; the handlers of the user interface start a         *)
(* mutation whenever the user acts.                                          *)

MaxSaves == 2

\* the object stores that onupgradeneeded creates
ObjectStores == { "habits", "trackingFields", "days", "plannerEvents" }

\* the object stores that loadData reads and saveData writes
UsedStores == { "habits", "trackingFields", "days", "plannerEvents", "events", "templates" }

\* this.db.transaction([storeName], ...) throws NotFoundError for a missing store
HasStore(storeName) == storeName \in ObjectStores

\* store.put(item) for every item: records are added or replaced by key
PutAll(store, items) ==
    [ k \in DOMAIN store \cup DOMAIN items |->
        IF k \in DOMAIN items THEN items[k] ELSE store[k] ]

\* { date, habits: days[date].habits || {}, tracking: ... }
DaysArray(daysData) ==
    [ k \in DOMAIN daysData |->
        [ habits |-> Some(IF IsSet(daysData[k].habits) THEN Val(daysData[k].habits)
                          ELSE << >>) ] ]

EmptyDb(open) ==
    [ open |-> open, habits |-> << >>, days |-> << >>, localStorage |-> None ]

InitPersist ==
    /\ db \in { EmptyDb(open) : open \in BOOLEAN }
    /\ inFlight = 0
    /\ enh = None /\ sync = None /\ events = << >>
    /\ data = EmptyData
    /\ form = None /\ answer = None
    /\ habit = NoHabit /\ days = << >> /\ lastOp = "none"
    /\ event = [ date |-> <<2024, 1, 1>>, recurrence |-> None ]
    /\ candidate = None /\ result = "none"

\* saveData up to its first await, called on the data d a mutation has left
saveData(d) ==
    IF db.open
    THEN /\ inFlight < MaxSaves
         /\ db' = [ db EXCEPT !.habits = PutAll(@, d.habits) ]
         /\ inFlight' = inFlight + 1
    ELSE /\ db' = [ db EXCEPT !.localStorage = Some(d) ]
         /\ UNCHANGED inFlight

\* a suspended saveData runs to its end: the days are put, the put into the
\* events store throws, and the catch block writes the localStorage item
saveSettles ==
    /\ inFlight > 0
    /\ inFlight' = inFlight - 1
    /\ db' = IF HasStore("events") /\ HasStore("templates")
             THEN [ db EXCEPT !.days = PutAll(@, DaysArray(data.days)) ]
             ELSE [ db EXCEPT !.days = PutAll(@, DaysArray(data.days)),
                              !.localStorage = Some(data) ]
    /\ lastOp' = "saveData"
    /\ UNCHANGED <<data, answer, enh>>
    /\ StoreFrame

\* what loadData leaves in this.data
LoadedData ==
    IF db.open
    THEN IF \A storeName \in UsedStores : HasStore(storeName)
         THEN [ habits |-> db.habits, days |-> DaysArray(db.days) ]
         ELSE EmptyData
    ELSE IF IsSet(db.localStorage) THEN Val(db.localStorage) ELSE data

loadData ==
    /\ data' = LoadedData
    /\ answer' = None
    /\ lastOp' = "loadData"
    /\ UNCHANGED <<db, inFlight, enh>>
    /\ StoreFrame

NextPersist ==
    \/ StoreAddHabit /\ saveData(data') /\ UNCHANGED enh
    \/ \E id \in DOMAIN data.habits :
            \/ StoreDeleteHabit(id) /\ saveData(data') /\ UNCHANGED enh
            \/ \E completed \in BOOLEAN :
                    /\ StoreSetHabitComplete(Today, id, completed)
                    /\ saveData(data') /\ UNCHANGED enh
    \/ clearAllData /\ saveData(data') /\ UNCHANGED enh
    \/ saveSettles
    \/ loadData

SpecPersist == InitPersist /\ [][NextPersist]_vars

----------------------------------------------------------------------------
(* C22: at most one DataManager.saveData is in flight at any time, whatever  *)
(* the interleaving of the mutations that the user interface triggers.       *)

C22_AtMostOneSaveInFlight == inFlight <= 1

----------------------------------------------------------------------------
(* C26: in IndexedDB mode, once every saveData has completed, loadData       *)
(* reproduces the in-memory habits and day records exactly; a deleted habit  *)
(* and everything removed by clearAllData are absent after the reload.       *)

C26_RoundTrip ==
    [][(db.open /\ inFlight = 0 /\ lastOp' = "loadData") => data' = data]_vars

----------------------------------------------------------------------------
(* AppEnhancements.  enh holds the streak cache and what the last call of    *)
(* the wrapped setHabitComplete celebrated ({} when nothing).  The           *)
(* application starts on a stored aggregate: one habit, completed on every   *)
(* day from some first day up to the day before yesterday; init() has filled *)
(* the cache and installed the wrapper.  The wrapped call is taken as one    *)
(* step.                                                                     *)

EnhSpan == 6
MaxEnhHabits == 1

EnhDays == { Today - 1, Today }

\* the stored aggregate at start: habit 1 created on day first, completed
\* on first .. Today - 2
StoredData(first) ==
    [ habits |-> (1 :> [ archived |-> FALSE, createdAt |-> first ]),
      days   |-> [ dateStr \in { formatDate(t) : t \in first..(Today - 2) }
                     |-> [ habits |-> Some(1 :> "true") ] ] ]

\* updateStreakCache
UpdatedStreakCache(d) == calculateAllStreaks(d.habits, d.days)

\* this.streakCache[habitId]?.current || 0
CachedCurrent(cache, habitId) ==
    IF habitId \in DOMAIN cache THEN cache[habitId].current ELSE 0

InitEnh ==
    /\ data \in { StoredData(first) : first \in (Today - EnhSpan)..(Today - 1) }
    /\ enh = [ streakCache |-> UpdatedStreakCache(data), celebrated |-> None ]
    /\ db = None /\ sync = None /\ inFlight = 0 /\ events = << >>
    /\ form = None /\ answer = None
    /\ habit = NoHabit /\ days = << >> /\ lastOp = "none"
    /\ event = [ date |-> <<2024, 1, 1>>, recurrence |-> None ]
    /\ candidate = None /\ result = "none"

\* what the wrapper does after the original call has returned
AfterSetHabitComplete(d, date, habitId, completed) ==
    LET previousStreak == CachedCurrent(enh.streakCache, habitId)
        cache          == UpdatedStreakCache(d)
        isToday        == formatDate(date) = getTodayString
        milestone      == checkMilestone(previousStreak, CachedCurrent(cache, habitId))
    IN  [ streakCache |-> cache,
          celebrated  |-> IF completed /\ isToday /\ IsSet(milestone)
                             /\ habitId \in DOMAIN d.habits
                          THEN Some([ habitId |-> habitId, milestone |-> Val(milestone) ])
                          ELSE None ]

\* the setHabitComplete that setupMilestoneTracking installs; when the
\* original call throws, the wrapper ends there
WrappedSetHabitComplete(date, habitId, completed) ==
    /\ StoreSetHabitComplete(date, habitId, completed)
    /\ enh' = IF IsSet(answer') THEN [ enh EXCEPT !.celebrated = None ]
              ELSE AfterSetHabitComplete(data', date, habitId, completed)
    /\ UNCHANGED <<db, inFlight>>

\* operations that do not go through AppEnhancements
EnhIdle == UNCHANGED <<enh, db, inFlight>>

NextEnh ==
    \/ /\ Cardinality(DOMAIN data.habits) < MaxEnhHabits
       /\ StoreAddHabit /\ EnhIdle
    \/ \E id \in DOMAIN data.habits :
            \/ archiveHabit(id) /\ EnhIdle
            \/ unarchiveHabit(id) /\ EnhIdle
            \/ \E date \in EnhDays, completed \in BOOLEAN :
                    WrappedSetHabitComplete(date, id, completed)
    \/ \E importedDays \in Imports : importData(importedDays) /\ EnhIdle
    \/ clearAllData /\ EnhIdle

SpecEnh == InitEnh /\ [][NextEnh]_vars

----------------------------------------------------------------------------
(* C21: a setHabitComplete call made through the wrapper that raises a       *)
(* habit's current streak from below a milestone to at or above it           *)
(* celebrates the smallest milestone newly crossed, during that call; a call *)
(* that crosses no milestone celebrates nothing.                             *)

C21_Milestones == { STREAK_MILESTONES[i] : i \in 1..Len(STREAK_MILESTONES) }

\* the milestones that the step takes habit h's current streak across
C21_Crossed(h) ==
    { m \in C21_Milestones :
        /\ calculateCurrentStreak(h, data.days) < m
        /\ calculateCurrentStreak(h, data'.days) >= m }

C21_WrappedCallMade == lastOp' \in { "setHabitComplete(true)", "setHabitComplete(false)" }

C21_MilestoneCelebrated ==
    [][C21_WrappedCallMade =>
         /\ \A h \in DOMAIN data.habits :
                C21_Crossed(h) # {} =>
                    \E m \in C21_Crossed(h) :
                        /\ \A o \in C21_Crossed(h) : m <= o
                        /\ enh'.celebrated = Some([ habitId |-> h, milestone |-> m ])
         /\ (\A h \in DOMAIN data.habits : C21_Crossed(h) = {}) => enh'.celebrated = None
      ]_vars

----------------------------------------------------------------------------
(* C27: whenever no wrapped setHabitComplete call is in progress, the cached *)
(* current streak of every habit that is not archived equals                 *)
(* calculateCurrentStreak on the stored day records.                         *)

C27_CacheCoherent ==
    \A h \in DOMAIN data.habits :
        ~data.habits[h].archived =>
            CachedCurrent(enh.streakCache, h) = calculateCurrentStreak(h, data.days)

============================================================================
